---------------------------- MODULE Spec2Model ----------------------------
(***************************************************************************)
(* NOF-VQE: the gradient-descent driver `vqe` and the natural-orbital      *)
(* functional energies E_BBAC3 and E_HF of the notebooks BBAC3-VQE.ipynb   *)
(* and HF-VQE.ipynb.                                                       *)
(*                                                                         *)
(* Part I  (Spec, FairSpec): one run of vqe(E_fn, params) as a state       *)
(*         machine, one action per statement group of the function body.   *)
(* Part II (SpecEnergy): one evaluation of E_BBAC3 or E_HF from the        *)
(*         natural-orbital quantities on, in exact rational arithmetic,    *)
(*         one action per loop nest of the function body.                  *)
(***************************************************************************)
EXTENDS Integers, Sequences, FiniteSets, TLC

(***************************************************************************)
(* Bounds of the model of vqe.                                             *)
(***************************************************************************)
\* largest value the global max_iterations takes (1000 in the notebooks)
MaxIterCap == 3
\* largest value the global conv_tol takes, in gradient units
MaxTol == 1
\* number of components of the parameter vector
NParams == 2
\* components of the initial parameter vector, in units of 1/Scale
InitVals == {-2, 0, 1}

(***************************************************************************)
(* optax.sgd(learning_rate=0.1): the learning rate LRNum/LRDen.  Parameter *)
(* components are held as integers in units of 1/LRDen, gradients and      *)
(* conv_tol as integers in units of 1, so one descent step is exact.       *)
(***************************************************************************)
LRNum == 1
LRDen == 10
Scale == LRDen

VARIABLES
    arg_params,      \* the argument params of the call vqe(E_fn, params)
    pc,              \* position in vqe: "entry","for","grad","update","append","check","return","done"
    E_fn,            \* the energy function handed to vqe
    max_iterations,  \* global read by the for loop
    conv_tol,        \* global read by the convergence test
    params,          \* local params (rebinds every iteration)
    opt_state,       \* optax optimizer state
    gradient,        \* local gradient of the current iteration
    it,              \* loop variable of `for it in range(max_iterations)`
    E_history,       \* list of energies
    params_history,  \* list of parameter vectors
    stop,            \* "none", "converged" (break taken), "maxiter" (range exhausted)
    ret,             \* the returned pair, <<>> until vqe returns
    \* ---- one evaluation of E_BBAC3 / E_HF ----
    epc,             \* position in the energy function, "idle" while vqe is modelled
    func,            \* "E_BBAC3" or "E_HF": the function called
    norb,            \* global norb
    F,               \* global F, the Fermi level
    E_nuc,           \* global E_nuc
    n,               \* occupation numbers returned by get_no_on
    h_NO,            \* one-electron integrals in the natural-orbital basis
    J_NO,            \* Coulomb integrals in the natural-orbital basis
    K_NO,            \* exchange integrals in the natural-orbital basis
    C,               \* local C of E_BBAC3
    D,               \* local D of E_BBAC3
    B,               \* local B of E_BBAC3
    E1,              \* local E1
    E2,              \* local E2
    E_ret,           \* the returned energy
    warnings,        \* warning-level signals emitted by the energy function so far
    \* ---- get_no_on and the transformation to the natural-orbital basis ----
    kind,            \* container of rdm1: "list" (Python sequence) or "array" (jax array)
    rdm1,            \* the argument rdm1, Python index i at position i + 1
    rdm1_aa,         \* local rdm1_aa of get_no_on
    eig,             \* what jnp.linalg.eigh returned: [w |-> eigenvalues, v |-> eigenvectors]
    vecs,            \* local vecs
    no_ret,          \* the pair returned by get_no_on, <<>> until it returns
    raised,          \* the exception that left the function, "none" if none
    h_MO,            \* global h_MO
    I_MO,            \* global I_MO
    \* ---- a second call of vqe in progress ----
    run2,            \* its locals, Unset when there is no second call
    \* ---- the measurement of the 1-RDM and calls of the energy function ----
    rdm1_ops,        \* global rdm1_ops, each operator as the pair of spin orbitals it couples
    op_pq,           \* the loop variables <<p, q>> of the loops that fill rdm1_ops
    gamma,           \* the alpha 1-RDM of the state ansatz(params) prepares, per value of params
    call,            \* the call of the energy function in progress and the calls made so far
    eigh_memo        \* the results jnp.linalg.eigh has given, as pairs <<matrix, result>>

vqeVars == <<arg_params, pc, E_fn, max_iterations, conv_tol, params, opt_state, gradient, it,
             E_history, params_history, stop, ret>>

nofVars == <<epc, func, norb, F, E_nuc, n, h_NO, J_NO, K_NO, C, D, B, E1, E2, E_ret, warnings>>

noVars == <<kind, rdm1, rdm1_aa, eig, vecs, no_ret, raised, h_MO, I_MO>>

callVars == <<rdm1_ops, op_pq, gamma, call, eigh_memo>>

vars == <<vqeVars, nofVars, noVars, run2, callVars>>

Abs(x) == IF x < 0 THEN -x ELSE x

Sign(x) == IF x < 0 THEN -1 ELSE IF x > 0 THEN 1 ELSE 0

PIdx == 1..NParams

(***************************************************************************)
(* The energy functions handed to vqe.  vqe treats E_fn as a black box; the*)
(* model runs it on a family of separable functions of the parameters,     *)
(* E(theta) = sum_i e(theta_i), with e one of                              *)
(*   "quad1": e(t) = 5 t^2     (one step of rate 0.1 lands on the minimum) *)
(*   "quad2": e(t) = 10 t^2    (rate 0.1 oscillates, never converges)      *)
(*   "abs"  : e(t) = |t|       (gradient +-1 until the minimum is hit)     *)
(*   "lin"  : e(t) = t         (gradient 1 everywhere)                     *)
(* Energies are integers in units of 1/(2*Scale), see Energy1.             *)
(***************************************************************************)
EFns == {"quad1", "quad2", "abs", "lin"}

\* e(t) for t = x/Scale, in units of 1/(2*Scale)
Energy1(f, x) ==
    CASE f = "quad1" -> x * x
      [] f = "quad2" -> 2 * x * x
      [] f = "abs"   -> 2 * Abs(x)
      [] f = "lin"   -> 2 * x

\* de/dt at t = x/Scale, in units of 1
Grad1(f, x) ==
    CASE f = "quad1" -> x
      [] f = "quad2" -> 2 * x
      [] f = "abs"   -> Sign(x)
      [] f = "lin"   -> 1

RECURSIVE SumTo(_, _)
SumTo(s, k) == IF k = 0 THEN 0 ELSE s[k] + SumTo(s, k - 1)

\* E_fn(params)
CallE(f, p) == SumTo([i \in PIdx |-> Energy1(f, p[i])], NParams)

\* jax.grad(E_fn)(params)
JaxGrad(f, p) == [i \in PIdx |-> Grad1(f, p[i])]

\* jnp.max(jnp.abs(gradient))
MaxAbs(g) == CHOOSE m \in {Abs(g[i]) : i \in PIdx} :
                 \A i \in PIdx : Abs(g[i]) <= m

(***************************************************************************)
(* optax.sgd: init gives the empty state; update scales the gradient by    *)
(* -learning_rate and leaves the state as it is.                           *)
(***************************************************************************)
EmptyState == <<>>

OptInit(p) == EmptyState

\* mutant: heavy-ball momentum, the trace of earlier gradients kept in the state
OptUpdate_Momentum(g, st) ==
    LET trace == IF st = EmptyState THEN [i \in PIdx |-> 0] ELSE st[1]
        t2    == [i \in PIdx |-> g[i] + trace[i]]
    IN  [updates |-> [i \in PIdx |-> -((LRNum * Scale * t2[i]) \div LRDen)],
         state   |-> <<t2>>]

OptUpdate(g, st) ==
    [updates |-> [i \in PIdx |-> -((LRNum * Scale * g[i]) \div LRDen)],
     state   |-> st]

\* optax.apply_updates(params, updates)
ApplyUpdates(p, u) == [i \in PIdx |-> p[i] + u[i]]

ParamVecs == [PIdx -> InitVals]

ZeroVec == [i \in PIdx |-> 0]

Unset == "unset"

\* no energy function is being evaluated
NofIdle ==
    /\ epc = "idle"
    /\ func = Unset /\ norb = 0 /\ F = 0 /\ E_nuc = Unset /\ n = Unset
    /\ h_NO = Unset /\ J_NO = Unset /\ K_NO = Unset
    /\ C = Unset /\ D = Unset /\ B = Unset /\ E1 = Unset /\ E2 = Unset /\ E_ret = Unset
    /\ warnings = <<>>

\* no operator is built and the energy function is not being called
CallIdle ==
    /\ rdm1_ops = <<>> /\ op_pq = Unset /\ gamma = Unset /\ call = Unset /\ eigh_memo = {}

\* get_no_on is not being evaluated
NoIdle ==
    /\ kind = Unset /\ rdm1 = <<>> /\ rdm1_aa = Unset /\ eig = Unset /\ vecs = Unset
    /\ no_ret = <<>> /\ raised = "none" /\ h_MO = Unset /\ I_MO = Unset
    /\ CallIdle

Init ==
    /\ NofIdle
    /\ NoIdle
    /\ run2 = Unset
    /\ pc = "entry"
    /\ E_fn \in EFns
    /\ max_iterations \in 0..MaxIterCap
    /\ conv_tol \in 0..MaxTol
    /\ arg_params \in ParamVecs
    /\ params = arg_params
    /\ opt_state = <<"unset">>
    /\ gradient = ZeroVec
    /\ it = -1
    /\ E_history = <<>>
    /\ params_history = <<>>
    /\ stop = "none"
    /\ ret = <<>>

\* opt = optax.sgd(...); opt_state = opt.init(params);
\* E_history = [E_fn(params)]; params_history = [params]
Enter ==
    /\ pc = "entry"
    /\ opt_state' = OptInit(params)
    /\ E_history' = <<CallE(E_fn, params)>>
    /\ params_history' = <<params>>
    /\ pc' = "for"
    /\ UNCHANGED <<nofVars, noVars, run2, callVars>>
    /\ UNCHANGED <<arg_params, E_fn, max_iterations, conv_tol, params, gradient, it, stop, ret>>

\* mutant: the loop runs one iteration more than max_iterations
ForNext_OffByOne ==
    /\ pc = "for"
    /\ IF it + 1 <= max_iterations
         THEN /\ it' = it + 1
              /\ pc' = "grad"
              /\ stop' = stop
         ELSE /\ it' = it
              /\ pc' = "return"
              /\ stop' = "maxiter"
    /\ UNCHANGED <<nofVars, noVars, run2, callVars>>
    /\ UNCHANGED <<arg_params, E_fn, max_iterations, conv_tol, params, opt_state, gradient,
                   E_history, params_history, ret>>

\* mutant: `while True` in place of the capped range
ForNext_NoCap ==
    /\ pc = "for"
    /\ it' = it + 1
    /\ pc' = "grad"
    /\ UNCHANGED <<nofVars, noVars, run2, callVars>>
    /\ UNCHANGED <<arg_params, E_fn, max_iterations, conv_tol, params, opt_state, gradient,
                   E_history, params_history, stop, ret>>

\* mutant: the loop is not entered when the initial gradient meets the tolerance
ForNext_TestFirst ==
    /\ pc = "for"
    /\ IF it + 1 < max_iterations /\ ~(it = -1 /\ MaxAbs(JaxGrad(E_fn, params)) <= conv_tol)
         THEN /\ it' = it + 1
              /\ pc' = "grad"
              /\ stop' = stop
         ELSE /\ it' = it
              /\ pc' = "return"
              /\ stop' = "maxiter"
    /\ UNCHANGED <<nofVars, noVars, run2, callVars>>
    /\ UNCHANGED <<arg_params, E_fn, max_iterations, conv_tol, params, opt_state, gradient,
                   E_history, params_history, ret>>

\* for it in range(max_iterations): next value of it, or the range is exhausted
ForNext ==
    /\ pc = "for"
    /\ IF it + 1 < max_iterations
         THEN /\ it' = it + 1
              /\ pc' = "grad"
              /\ stop' = stop
         ELSE /\ it' = it
              /\ pc' = "return"
              /\ stop' = "maxiter"
    /\ UNCHANGED <<nofVars, noVars, run2, callVars>>
    /\ UNCHANGED <<arg_params, E_fn, max_iterations, conv_tol, params, opt_state, gradient,
                   E_history, params_history, ret>>

\* gradient = jax.grad(E_fn)(params)
EvalGradient ==
    /\ pc = "grad"
    /\ gradient' = JaxGrad(E_fn, params)
    /\ pc' = "update"
    /\ UNCHANGED <<nofVars, noVars, run2, callVars>>
    /\ UNCHANGED <<arg_params, E_fn, max_iterations, conv_tol, params, opt_state, it,
                   E_history, params_history, stop, ret>>

\* updates, opt_state = opt.update(gradient, opt_state)
\* params = optax.apply_updates(params, updates)
Update ==
    /\ pc = "update"
    /\ LET r == OptUpdate(gradient, opt_state)
       IN  /\ opt_state' = r.state
           /\ params' = ApplyUpdates(params, r.updates)
    /\ pc' = "append"
    /\ UNCHANGED <<nofVars, noVars, run2, callVars>>
    /\ UNCHANGED <<arg_params, E_fn, max_iterations, conv_tol, gradient, it,
                   E_history, params_history, stop, ret>>

\* mutant: the energy is not recorded
AppendHistories_NoEnergy ==
    /\ pc = "append"
    /\ params_history' = Append(params_history, params)
    /\ pc' = "check"
    /\ UNCHANGED <<nofVars, noVars, run2, callVars>>
    /\ UNCHANGED <<arg_params, E_fn, max_iterations, conv_tol, params, opt_state, gradient,
                   it, E_history, stop, ret>>

\* mutant: the energy recorded is the one of the parameters before the update
AppendHistories_StaleEnergy ==
    /\ pc = "append"
    /\ params_history' = Append(params_history, params)
    /\ E_history' = Append(E_history, CallE(E_fn, params_history[Len(params_history)]))
    /\ pc' = "check"
    /\ UNCHANGED <<nofVars, noVars, run2, callVars>>
    /\ UNCHANGED <<arg_params, E_fn, max_iterations, conv_tol, params, opt_state, gradient,
                   it, stop, ret>>

\* params_history.append(params); E_history.append(E_fn(params))
AppendHistories ==
    /\ pc = "append"
    /\ params_history' = Append(params_history, params)
    /\ E_history' = Append(E_history, CallE(E_fn, params))
    /\ pc' = "check"
    /\ UNCHANGED <<nofVars, noVars, run2, callVars>>
    /\ UNCHANGED <<arg_params, E_fn, max_iterations, conv_tol, params, opt_state, gradient,
                   it, stop, ret>>

\* mutant: strict comparison
Converged_Strict(g, tol) == MaxAbs(g) < tol

\* g_maxabs = jnp.max(jnp.abs(gradient)); if g_maxabs <= conv_tol: break
Converged(g, tol) == MaxAbs(g) <= tol

\* mutant: the test uses the gradient at the parameters after the update
CheckConvergence_PostUpdate ==
    /\ pc = "check"
    /\ IF Converged(JaxGrad(E_fn, params), conv_tol)
         THEN /\ pc' = "return"
              /\ stop' = "converged"
         ELSE /\ pc' = "for"
              /\ stop' = stop
    /\ UNCHANGED <<nofVars, noVars, run2, callVars>>
    /\ UNCHANGED <<arg_params, E_fn, max_iterations, conv_tol, params, opt_state, gradient,
                   it, E_history, params_history, ret>>

CheckConvergence ==
    /\ pc = "check"
    /\ IF Converged(gradient, conv_tol)
         THEN /\ pc' = "return"
              /\ stop' = "converged"
         ELSE /\ pc' = "for"
              /\ stop' = stop
    /\ UNCHANGED <<nofVars, noVars, run2, callVars>>
    /\ UNCHANGED <<arg_params, E_fn, max_iterations, conv_tol, params, opt_state, gradient,
                   it, E_history, params_history, ret>>

\* return E_history, params_history
Return ==
    /\ pc = "return"
    /\ ret' = <<E_history, params_history>>
    /\ pc' = "done"
    /\ UNCHANGED <<nofVars, noVars, run2, callVars>>
    /\ UNCHANGED <<arg_params, E_fn, max_iterations, conv_tol, params, opt_state, gradient,
                   it, E_history, params_history, stop>>

Next ==
    \/ Enter
    \/ ForNext
    \/ EvalGradient
    \/ Update
    \/ AppendHistories
    \/ CheckConvergence
    \/ Return

Spec == Init /\ [][Next]_vars


\* the sequential run never stops between two statements while every call returns
FairSpec == Init /\ [][Next]_vars /\ WF_vars(Next)

(***************************************************************************)
(* Properties of vqe.  Python index k of a history is index k+1 here.      *)
(***************************************************************************)
\* the gradient of the iteration that started at parameter vector p meets the tolerance
MeetsTol(p) == \A i \in PIdx : Abs(JaxGrad(E_fn, p)[i]) <= conv_tol

\* number of loop iterations whose body has run to the end
IterationsRun == Len(params_history) - 1

IsPrefix(s, t) == Len(s) <= Len(t) /\ \A k \in 1..Len(s) : s[k] = t[k]

\* C1 (state part): at return, no iteration before the last met the tolerance,
\* and either the last one did, or none did and exactly max_iterations ran.
C1_StopState ==
    pc \in {"return", "done"} =>
        LET N == IterationsRun
        IN  /\ N <= max_iterations
            /\ \A j \in 1..(N - 1) : ~MeetsTol(params_history[j])
            /\ \/ N >= 1 /\ MeetsTol(params_history[N]) /\ stop = "converged"
               \/ /\ N = max_iterations
                  /\ \A j \in 1..N : ~MeetsTol(params_history[j])
                  /\ stop = "maxiter"

\* C1 (step part): once the loop has stopped, no update is applied and nothing
\* is appended to either history.
C1_StopStep ==
    stop # "none" =>
        /\ UNCHANGED <<params, E_history, params_history, stop, it>>
        /\ pc' \in {"return", "done"}

\* C1: vqe stops right after the first iteration with max|g| <= conv_tol
\* (equality included), otherwise after exactly max_iterations iterations,
\* and both stops are terminal.
C1_StopsAtFirstConvergedOrCap == [](C1_StopState) /\ [][C1_StopStep]_vars

\* a run that converged in its second or a later iteration
C1_Witness ==
    /\ pc = "done"
    /\ stop = "converged"
    /\ IterationsRun >= 2
    /\ IterationsRun < max_iterations

\* C2: the returned histories have the same length, the number of iterations
\* executed plus one, which lies in 1..max_iterations+1.
C2_HistoryLengths ==
    pc = "done" =>
        /\ Len(ret[1]) = Len(ret[2])
        /\ Len(ret[1]) = (it + 1) + 1
        /\ Len(ret[1]) >= 1
        /\ Len(ret[1]) <= max_iterations + 1

\* a returned run of two iterations under a larger cap
C2_Witness ==
    /\ pc = "done"
    /\ it = 1
    /\ Len(ret[1]) = 3
    /\ max_iterations = 3

\* C3 (state part): entry 0 of params_history is the argument, and at every
\* iteration boundary and at return each energy is E_fn of its parameters.
C3_HistoryState ==
    /\ pc \in {"for", "grad", "update", "append", "check", "return", "done"} =>
           params_history[1] = arg_params
    /\ pc \in {"for", "return", "done"} =>
           /\ Len(E_history) = Len(params_history)
           /\ \A k \in 1..Len(E_history) :
                  E_history[k] = CallE(E_fn, params_history[k])
    /\ pc = "done" => ret = <<E_history, params_history>>

\* C3 (step part): both histories only ever grow at the end.
C3_HistoryStep ==
    /\ IsPrefix(E_history, E_history')
    /\ IsPrefix(params_history, params_history')

\* C3: params_history[0] is the initial vector, E_history[k] = E_fn(params_history[k])
\* at every iteration boundary and at return, and the histories are append-only.
C3_HistoriesConsistent == [](C3_HistoryState) /\ [][C3_HistoryStep]_vars

\* an iteration boundary after two iterations that moved the parameters
C3_Witness ==
    /\ pc = "for"
    /\ Len(params_history) = 3
    /\ params_history[3] # params_history[2]
    /\ params_history[2] # params_history[1]

\* C4: vqe terminates, and never starts more than max_iterations iterations.
C4_Terminates == <>(pc = "done") /\ [](it + 1 <= max_iterations)

\* a run that never met the tolerance and returned at the cap
C4_Witness ==
    /\ pc = "done"
    /\ stop = "maxiter"
    /\ max_iterations = MaxIterCap
    /\ IterationsRun = max_iterations

\* C5: consecutive entries of params_history differ by exactly
\* -learning_rate * gradient(E_fn)(previous entry), whatever happened in
\* earlier iterations, and the energy appended with an entry is E_fn of it.
C5_PlainGradientDescent ==
    \A k \in 1..(Len(params_history) - 1) :
        /\ \A i \in PIdx :
               LRDen * (params_history[k + 1][i] - params_history[k][i])
                   = -(LRNum * Scale * JaxGrad(E_fn, params_history[k])[i])
        /\ Len(E_history) > k =>
               E_history[k + 1] = CallE(E_fn, params_history[k + 1])

\* three updates with gradients that differ from one iteration to the next
C5_Witness ==
    /\ Len(params_history) = 4
    /\ Len(E_history) = 4
    /\ JaxGrad(E_fn, params_history[1]) # JaxGrad(E_fn, params_history[2])
    /\ JaxGrad(E_fn, params_history[2]) # JaxGrad(E_fn, params_history[3])
    /\ JaxGrad(E_fn, params_history[3]) # ZeroVec

\* C6 as stated: the histories have length max_iterations + 1 exactly when the
\* run ended at the cap without the gradient check succeeding.
C6_LengthTellsOutcome ==
    pc = "done" => (Len(ret[1]) = max_iterations + 1 <=> stop = "maxiter")

\* C6 amended: a run that ended at the cap returns max_iterations + 1 entries
\* and a shorter return means the gradient check succeeded; a return of
\* max_iterations + 1 entries is either outcome.
C6_LengthBoundsOutcome ==
    pc = "done" =>
        /\ stop \in {"converged", "maxiter"}
        /\ stop = "maxiter" => Len(ret[1]) = max_iterations + 1
        /\ Len(ret[1]) < max_iterations + 1 => stop = "converged"
        /\ (stop = "converged" /\ Len(ret[1]) = max_iterations + 1) =>
               MeetsTol(ret[2][max_iterations])

\* a run whose gradient check succeeded in the last iteration the cap allows
C6_Witness ==
    /\ pc = "done"
    /\ stop = "converged"
    /\ max_iterations >= 2
    /\ Len(ret[1]) = max_iterations + 1


(***************************************************************************)
(* Part II.  Exact arithmetic.  The notebooks compute in float64 (jax x64);*)
(* the model computes the same expressions over the rationals, so that an  *)
(* equality between two formulas is decided exactly.  Naturals are         *)
(* little-endian sequences of limbs in base Base (<<>> is 0), integers a   *)
(* sign and a magnitude, rationals a numerator over a positive denominator *)
(* (not reduced: compare with QEq).                                        *)
(***************************************************************************)
Base == 100 * 100

RECURSIVE NFromInt(_)
NFromInt(k) == IF k = 0 THEN <<>> ELSE <<k % Base>> \o NFromInt(k \div Base)

NRest(a) == IF a = <<>> THEN <<>> ELSE Tail(a)

NLow(a) == IF a = <<>> THEN 0 ELSE a[1]

RECURSIVE NAddC(_, _, _)
NAddC(a, b, c) ==
    IF b = <<>> /\ c = 0 THEN a
    ELSE IF a = <<>> /\ c = 0 THEN b
    ELSE LET s == NLow(a) + NLow(b) + c
         IN  <<s % Base>> \o NAddC(NRest(a), NRest(b), s \div Base)

NAdd(a, b) == NAddC(a, b, 0)

RECURSIVE NTrim(_)
NTrim(a) ==
    IF a = <<>> THEN a
    ELSE IF a[Len(a)] = 0 THEN NTrim(SubSeq(a, 1, Len(a) - 1)) ELSE a

RECURSIVE NSubB(_, _, _)
NSubB(a, b, br) ==
    IF b = <<>> /\ br = 0 THEN a
    ELSE LET d == NLow(a) - NLow(b) - br
         IN  IF d < 0 THEN <<d + Base>> \o NSubB(NRest(a), NRest(b), 1)
                      ELSE <<d>> \o NSubB(NRest(a), NRest(b), 0)

\* a - b for a >= b
NSub(a, b) == NTrim(NSubB(a, b, 0))

RECURSIVE NCmpAt(_, _, _)
NCmpAt(a, b, k) ==
    IF k = 0 THEN 0
    ELSE IF a[k] < b[k] THEN -1
    ELSE IF a[k] > b[k] THEN 1
    ELSE NCmpAt(a, b, k - 1)

NCmp(a, b) ==
    IF Len(a) < Len(b) THEN -1
    ELSE IF Len(a) > Len(b) THEN 1
    ELSE NCmpAt(a, b, Len(a))

RECURSIVE NMulLimb(_, _, _)
NMulLimb(a, d, c) ==
    IF a = <<>> THEN (IF c = 0 THEN <<>> ELSE <<c>>)
    ELSE LET t == a[1] * d + c
         IN  <<t % Base>> \o NMulLimb(Tail(a), d, t \div Base)

NShift(a) == IF a = <<>> THEN <<>> ELSE <<0>> \o a

RECURSIVE NMul(_, _)
NMul(a, b) ==
    IF a = <<>> \/ b = <<>> THEN <<>>
    ELSE IF b = <<1>> THEN a
    ELSE IF a = <<1>> THEN b
    ELSE NAdd(IF b[1] = 0 THEN <<>> ELSE NMulLimb(a, b[1], 0), NShift(NMul(a, Tail(b))))

\* a \div 2
NHalf(a) ==
    NTrim([k \in 1..Len(a) |->
              (a[k] + (IF k < Len(a) THEN (a[k + 1] % 2) * Base ELSE 0)) \div 2])

\* the r with r*r <= a < (r+1)*(r+1), given lo*lo <= a < hi*hi
RECURSIVE NSqrtSearch(_, _, _)
NSqrtSearch(a, lo, hi) ==
    IF NAdd(lo, <<1>>) = hi THEN lo
    ELSE LET mid == NHalf(NAdd(lo, hi))
         IN  IF NCmp(NMul(mid, mid), a) <= 0 THEN NSqrtSearch(a, mid, hi)
                                             ELSE NSqrtSearch(a, lo, mid)

\* largest r with r*r <= a
NSqrt(a) ==
    IF Len(a) <= 2
    THEN LET v == IF a = <<>> THEN 0 ELSE IF Len(a) = 1 THEN a[1] ELSE a[1] + Base * a[2]
             r == CHOOSE r \in 0..Base : r * r <= v /\ v < (r + 1) * (r + 1)
         IN  NFromInt(r)
    ELSE NSqrtSearch(a, <<>>, [k \in 1..((Len(a) + 1) \div 2 + 1) |->
                                  IF k = (Len(a) + 1) \div 2 + 1 THEN 1 ELSE 0])

\* signed integers: sign s in {-1,0,1}, magnitude m
ZMk(s, m) == IF m = <<>> THEN [s |-> 0, m |-> <<>>] ELSE [s |-> s, m |-> m]

ZFromInt(k) == IF k < 0 THEN ZMk(-1, NFromInt(-k)) ELSE ZMk(1, NFromInt(k))

ZNeg(x) == ZMk(-x.s, x.m)

ZAdd(x, y) ==
    IF x.s = 0 THEN y
    ELSE IF y.s = 0 THEN x
    ELSE IF x.s = y.s THEN ZMk(x.s, NAdd(x.m, y.m))
    ELSE LET c == NCmp(x.m, y.m)
         IN  IF c = 0 THEN ZMk(0, <<>>)
             ELSE IF c > 0 THEN ZMk(x.s, NSub(x.m, y.m))
             ELSE ZMk(y.s, NSub(y.m, x.m))

ZMulN(x, m) == ZMk(x.s, NMul(x.m, m))

\* rationals: num a signed integer, den a positive natural
QFrac(a, b) == [num |-> ZFromInt(a), den |-> NFromInt(b)]

QInt(k) == QFrac(k, 1)

QNeg(x) == [num |-> ZNeg(x.num), den |-> x.den]

QAbs(x) == [num |-> ZMk(1, x.num.m), den |-> x.den]

\* quotient and remainder of the limbs k.. of a by the small number d
RECURSIVE NDivAt(_, _, _)
NDivAt(a, d, k) ==
    IF k > Len(a) THEN [q |-> <<>>, r |-> 0]
    ELSE LET hi  == NDivAt(a, d, k + 1)
             cur == hi.r * Base + a[k]
         IN  [q |-> <<cur \div d>> \o hi.q, r |-> cur % d]

\* x with the common factors d of numerator and denominator cancelled
RECURSIVE QCancel(_, _)
QCancel(x, d) ==
    LET a == NDivAt(x.num.m, d, 1)
        b == NDivAt(x.den, d, 1)
    IN  IF x.num.s = 0 \/ x.den = <<>> \/ a.r # 0 \/ b.r # 0 THEN x
        ELSE QCancel([num |-> ZMk(x.num.s, NTrim(a.q)), den |-> NTrim(b.q)], d)

\* the same value with the factors 2, 3 and 5 cancelled: lowest terms for
\* the denominators of the model, which have no other prime factor
QReduce(x) ==
    IF x.den # <<>> /\ x.num.s = 0 THEN [num |-> x.num, den |-> <<1>>]
    ELSE QCancel(QCancel(QCancel(x, 2), 3), 5)

QAdd(x, y) ==
    IF x.den = y.den THEN [num |-> ZAdd(x.num, y.num), den |-> x.den]
    ELSE QReduce([num |-> ZAdd(ZMulN(x.num, y.den), ZMulN(y.num, x.den)),
                  den |-> NMul(x.den, y.den)])

QSub(x, y) == QAdd(x, QNeg(y))

QMul(x, y) ==
    [num |-> ZMk(x.num.s * y.num.s, NMul(x.num.m, y.num.m)),
     den |-> NMul(x.den, y.den)]

\* x / y for y # 0
QDiv(x, y) ==
    IF x.den = y.den THEN [num |-> ZMk(x.num.s * y.num.s, x.num.m), den |-> y.num.m]
    ELSE [num |-> ZMk(x.num.s * y.num.s, NMul(x.num.m, y.den)),
          den |-> NMul(x.den, y.num.m)]

\* nan: the value with denominator zero; sums, products and quotients with it are nan
QNaN == [num |-> ZMk(0, <<>>), den |-> <<>>]

IsNaN(x) == x.den = <<>>

\* jnp.sqrt: nan for a negative argument
QSqrt(x) ==
    IF x.num.s < 0 THEN QNaN
    ELSE [num |-> ZMk(1, NSqrt(x.num.m)), den |-> NSqrt(x.den)]

\* nan equals nothing
QEq(x, y) == ~IsNaN(x) /\ ~IsNaN(y) /\ ZMulN(x.num, y.den) = ZMulN(y.num, x.den)

QSign(x) == x.num.s

QLe(x, y) == QSign(QSub(x, y)) <= 0


Q0 == QInt(0)

Q1 == QInt(1)

Q2 == QInt(2)

RECURSIVE QSumSeq(_)
QSumSeq(ts) == IF ts = <<>> THEN Q0 ELSE QAdd(ts[1], QSumSeq(Tail(ts)))

(***************************************************************************)
(* E_BBAC3 and E_HF from the natural-orbital quantities on.                *)
(***************************************************************************)
\* bounds: norb ranges over 1..MaxNorb, occupations over (r/RootDen)^2, r in 0..RootDen
MaxNorb == 2
RootDen == 2

OrbOf(nb) == 0..(nb - 1)

Orb == OrbOf(norb)

\* range(F, norb) and range(F)
IsVirt(p) == p >= F

IsCore(p) == p < F

\* occupation vectors as get_no_on returns them: eigenvalues in descending order.
\* The values are (r/RootDen)^2 and, for r = -1, the negative -(1/RootDen)^2 of
\* an rdm1 that is not a density matrix.
Occ(r) == QFrac(IF r < 0 THEN -(r * r) ELSE r * r, RootDen * RootDen)

OccVecs(nb) ==
    {[p \in OrbOf(nb) |-> Occ(r[p])] :
        r \in {r \in [OrbOf(nb) -> (-1)..RootDen] :
                  \A p \in OrbOf(nb) : p + 1 < nb => r[p] >= r[p + 1]}}

\* jnp.zeros((norb, norb))
ZerosOf(nb) == [p \in OrbOf(nb) |-> [q \in OrbOf(nb) |-> Q0]]

Zeros == ZerosOf(norb)

UnitM(nb, S) == [p \in OrbOf(nb) |-> [q \in OrbOf(nb) |-> IF <<p, q>> \in S THEN Q1 ELSE Q0]]

UpperPairs(nb) == {pq \in OrbOf(nb) \X OrbOf(nb) : pq[1] < pq[2]}

(***************************************************************************)
(* Values of (E_nuc, h_NO, J_NO, K_NO) after the einsum transformations.   *)
(* h_NO, J_NO and K_NO are symmetric and J_NO[p,p] = K_NO[p,p] (both are   *)
(* the contraction of I_MO with four copies of column p).  The energies are*)
(* affine in these integrals, so the family holds the zero integrals, one  *)
(* member per independent entry, and a dense member.                       *)
(***************************************************************************)
IntegralSet(en, h, J, K) == [E_nuc |-> en, h |-> h, J |-> J, K |-> K]

DenseIntegrals(nb) ==
    LET J == [p \in OrbOf(nb) |-> [q \in OrbOf(nb) |-> QInt(3 + p + q + p * q)]]
    IN  IntegralSet(QFrac(7, 10),
            [p \in OrbOf(nb) |-> [q \in OrbOf(nb) |-> QFrac(-(2 + p + q), 2)]],
            J,
            [p \in OrbOf(nb) |-> [q \in OrbOf(nb) |->
                IF p = q THEN J[p][q] ELSE QFrac(1 + p + q, 3)]])

IntegralSets(nb) ==
    LET Z == ZerosOf(nb)
    IN  {IntegralSet(Q0, Z, Z, Z), IntegralSet(QFrac(7, 10), Z, Z, Z), DenseIntegrals(nb)}
        \cup {IntegralSet(Q0, UnitM(nb, {<<p, p>>}), Z, Z) : p \in OrbOf(nb)}
        \cup {IntegralSet(Q0, Z, UnitM(nb, {<<p, p>>}), UnitM(nb, {<<p, p>>})) : p \in OrbOf(nb)}
        \cup {IntegralSet(Q0, UnitM(nb, {pq, <<pq[2], pq[1]>>}), Z, Z) : pq \in UpperPairs(nb)}
        \cup {IntegralSet(Q0, Z, UnitM(nb, {pq, <<pq[2], pq[1]>>}), Z) : pq \in UpperPairs(nb)}
        \cup {IntegralSet(Q0, Z, Z, UnitM(nb, {pq, <<pq[2], pq[1]>>})) : pq \in UpperPairs(nb)}

\* a_d = 1.4423, a_o = 1.5552
a_d == QFrac(14423, 10000)

a_o == QFrac(15552, 10000)

\* def P_BBAC3(a, x): return a * x**2 * (x**2 - 2)
P_BBAC3(a, x) == QMul(QMul(a, QMul(x, x)), QSub(QMul(x, x), Q2))

\* def D_BBAC3(a, x): P = P_BBAC3(a, x); return P**2 / (1 + P**2)
D_BBAC3(a, x) ==
    LET P == P_BBAC3(a, x)
    IN  QDiv(QMul(P, P), QAdd(Q1, QMul(P, P)))

\* mutant: the product itself is handed to sqrt
SqrtArg_NoAbs(a, b) == QMul(n[a], n[b])

\* jnp.abs(n[a] * n[b]), the argument of jnp.sqrt
SqrtArg(a, b) == QAbs(QMul(n[a], n[b]))

\* c * jnp.sqrt(jnp.abs(n[a] * n[b])) + 2 * n[a] * n[b]
CEntry(c, a, b) ==
    QAdd(QMul(QInt(c), QSqrt(SqrtArg(a, b))), QMul(QMul(Q2, n[a]), n[b]))

\* for p in range(F, norb): for q in range(F, norb): C.at[p, q].set(2 sqrt + 2 n n)
C_VirtVirt(M) ==
    [p \in Orb |-> [q \in Orb |->
        IF IsVirt(p) /\ IsVirt(q) THEN CEntry(2, q, p) ELSE M[p][q]]]

\* for p in range(F): for q in range(F): C.at[p, q].set(-2 sqrt + 2 n n)
C_CoreCore(M) ==
    [p \in Orb |-> [q \in Orb |->
        IF IsCore(p) /\ IsCore(q) THEN CEntry(-2, q, p) ELSE M[p][q]]]

\* mutant: the cross block gets the sign of the virtual block
C_Cross_Plus(M) ==
    [r \in Orb |-> [c \in Orb |->
        IF IsCore(r) /\ IsVirt(c) THEN CEntry(2, c, r)
        ELSE IF IsVirt(r) /\ IsCore(c) THEN CEntry(2, c, r)
        ELSE M[r][c]]]

\* for p in range(F): for q in range(F, norb): C.at[p, q].set(..); C.at[q, p].set(..)
C_Cross(M) ==
    [r \in Orb |-> [c \in Orb |->
        IF IsCore(r) /\ IsVirt(c) THEN CEntry(-2, c, r)
        ELSE IF IsVirt(r) /\ IsCore(c) THEN CEntry(-2, c, r)
        ELSE M[r][c]]]

\* for p in range(norb): C.at[p, p].set(-2 sqrt + 2 n n)
C_Diag(M) ==
    [p \in Orb |-> [q \in Orb |-> IF p = q THEN CEntry(-2, p, p) ELSE M[p][q]]]

\* mutant: the loops run over every orbital
D_CoreCore_Everywhere(M) ==
    [p \in Orb |-> [q \in Orb |-> Q1]]

\* for p in range(F): for q in range(F): D.at[p, q].set(1)
D_CoreCore(M) ==
    [p \in Orb |-> [q \in Orb |-> IF IsCore(p) /\ IsCore(q) THEN Q1 ELSE M[p][q]]]

\* mutant: the diagonal damping computed with a_o
D_Diag_OffDiagConst(M) ==
    [p \in Orb |-> [q \in Orb |->
        IF p = q THEN D_BBAC3(a_o, QSub(QMul(Q2, n[p]), Q1)) ELSE M[p][q]]]

\* for p in range(norb): D.at[p, p].set(D_BBAC3(a_d, 2 * n[p] - 1))
D_Diag(M) ==
    [p \in Orb |-> [q \in Orb |->
        IF p = q THEN D_BBAC3(a_d, QSub(QMul(Q2, n[p]), Q1)) ELSE M[p][q]]]

\* D_BBAC3(a_o, 2 * n[a] + 2 * n[b] - 2)
DCrossEntry(a, b) ==
    D_BBAC3(a_o, QSub(QAdd(QMul(Q2, n[a]), QMul(Q2, n[b])), Q2))

\* mutant: only D[p, q] with p < F <= q is assigned, D[q, p] is not
D_Cross_OneOrder(M) ==
    [r \in Orb |-> [c \in Orb |->
        IF IsCore(r) /\ IsVirt(c) THEN DCrossEntry(r, c) ELSE M[r][c]]]

\* mutant: the inner loop starts at q = p and overwrites D[p, p]
D_Cross_OverDiag(M) ==
    [r \in Orb |-> [c \in Orb |->
        IF (IsCore(r) /\ IsVirt(c)) \/ (IsVirt(r) /\ IsCore(c)) \/ (IsCore(r) /\ r = c)
          THEN DCrossEntry(r, c)
        ELSE M[r][c]]]

\* for p in range(F): for q in range(F, norb): D.at[p, q].set(..); D.at[q, p].set(..)
D_Cross(M) ==
    [r \in Orb |-> [c \in Orb |->
        IF (IsCore(r) /\ IsVirt(c)) \/ (IsVirt(r) /\ IsCore(c)) THEN DCrossEntry(r, c)
        ELSE M[r][c]]]

\* B = (1 - D) * C
B_Final(DM, CM) == [p \in Orb |-> [q \in Orb |-> QMul(QSub(Q1, DM[p][q]), CM[p][q])]]

\* E1 = 0; for p in range(norb): E1 += 2 * n[p] * h_NO[p, p]   (after k iterations)
RECURSIVE E1_Loop(_)
E1_Loop(k) ==
    IF k = 0 THEN Q0
    ELSE LET p == k - 1
         IN  QAdd(E1_Loop(k - 1), QMul(QMul(Q2, n[p]), h_NO[p][p]))

\* 2 * n[q] * n[p] * J_NO[p, q] + 1 / 2 * (-2 * n[p] * n[q] + B[q, p]) * K_NO[p, q]
\* (Jm and Km are the matrices read as J_NO and K_NO)
E2_Term_BBAC3(p, q, Jm, Km) ==
    QAdd(QMul(QMul(QMul(Q2, n[q]), n[p]), Jm[p][q]),
         QMul(QMul(QFrac(1, 2), QAdd(QMul(QMul(QInt(-2), n[p]), n[q]), B[q][p])),
              Km[p][q]))

\* mutant: the diagonal terms p == q are skipped, as in E_HF
RECURSIVE E2_Loop_BBAC3_NoDiag(_, _, _)
E2_Loop_BBAC3_NoDiag(t, Jm, Km) ==
    IF t = 0 THEN Q0
    ELSE LET p == (t - 1) \div norb
             q == (t - 1) % norb
         IN  IF p # q THEN QAdd(E2_Loop_BBAC3_NoDiag(t - 1, Jm, Km),
                                E2_Term_BBAC3(p, q, Jm, Km))
                      ELSE E2_Loop_BBAC3_NoDiag(t - 1, Jm, Km)

\* E2 = 0; for p in range(norb): for q in range(norb): E2 += ...   (after t iterations)
RECURSIVE E2_Loop_BBAC3(_, _, _)
E2_Loop_BBAC3(t, Jm, Km) ==
    IF t = 0 THEN Q0
    ELSE LET p == (t - 1) \div norb
             q == (t - 1) % norb
         IN  QAdd(E2_Loop_BBAC3(t - 1, Jm, Km), E2_Term_BBAC3(p, q, Jm, Km))

\* (n[q] * n[p]) * (2 * J_NO[p, q] - K_NO[p, q])
E2_Term_HF(p, q, Jm, Km) ==
    QMul(QMul(n[q], n[p]), QSub(QMul(Q2, Jm[p][q]), Km[p][q]))

\* mutant: the diagonal terms p == q are summed too
RECURSIVE E2_Loop_HF_WithDiag(_, _, _)
E2_Loop_HF_WithDiag(t, Jm, Km) ==
    IF t = 0 THEN Q0
    ELSE LET p == (t - 1) \div norb
             q == (t - 1) % norb
         IN  QAdd(E2_Loop_HF_WithDiag(t - 1, Jm, Km), E2_Term_HF(p, q, Jm, Km))

\* E2 = 0; for p ..: for q ..: if p != q: E2 += ...   (after t iterations)
RECURSIVE E2_Loop_HF(_, _, _)
E2_Loop_HF(t, Jm, Km) ==
    IF t = 0 THEN Q0
    ELSE LET p == (t - 1) \div norb
             q == (t - 1) % norb
         IN  IF p # q THEN QAdd(E2_Loop_HF(t - 1, Jm, Km), E2_Term_HF(p, q, Jm, Km))
                      ELSE E2_Loop_HF(t - 1, Jm, Km)

\* return E_nuc + E1 + E2
E_Total == QAdd(QAdd(E_nuc, E1), E2)

VqeIdle ==
    /\ pc = "idle"
    /\ arg_params = Unset /\ E_fn = Unset /\ max_iterations = 0 /\ conv_tol = 0
    /\ params = Unset /\ opt_state = Unset /\ gradient = Unset /\ it = -1
    /\ E_history = <<>> /\ params_history = <<>> /\ stop = "none" /\ ret = <<>>
    /\ run2 = Unset

\* the state of E_BBAC3 / E_HF once n, h_NO, J_NO and K_NO are computed
InitEnergy ==
    /\ VqeIdle
    /\ NoIdle
    /\ warnings = <<>>
    /\ func \in {"E_BBAC3", "E_HF"}
    /\ norb \in 1..MaxNorb
    /\ F \in 0..norb
    /\ n \in OccVecs(norb)
    /\ \E s \in IntegralSets(norb) :
           /\ E_nuc = s.E_nuc
           /\ h_NO = s.h
           /\ J_NO = s.J
           /\ K_NO = s.K
    /\ epc = IF func = "E_BBAC3" THEN "C_vv" ELSE "E1"
    /\ C = Unset /\ D = Unset /\ B = Unset /\ E1 = Unset /\ E2 = Unset /\ E_ret = Unset

BuildC_VirtVirt ==
    /\ epc = "C_vv"
    /\ C' = C_VirtVirt(Zeros)
    /\ epc' = "C_cc"
    /\ UNCHANGED <<warnings, func, norb, F, E_nuc, n, h_NO, J_NO, K_NO, D, B, E1, E2, E_ret>>
    /\ UNCHANGED <<vqeVars, noVars, run2, callVars>>

BuildC_CoreCore ==
    /\ epc = "C_cc"
    /\ C' = C_CoreCore(C)
    /\ epc' = "C_cross"
    /\ UNCHANGED <<warnings, func, norb, F, E_nuc, n, h_NO, J_NO, K_NO, D, B, E1, E2, E_ret>>
    /\ UNCHANGED <<vqeVars, noVars, run2, callVars>>

BuildC_Cross ==
    /\ epc = "C_cross"
    /\ C' = C_Cross(C)
    /\ epc' = "C_diag"
    /\ UNCHANGED <<warnings, func, norb, F, E_nuc, n, h_NO, J_NO, K_NO, D, B, E1, E2, E_ret>>
    /\ UNCHANGED <<vqeVars, noVars, run2, callVars>>

BuildC_Diag ==
    /\ epc = "C_diag"
    /\ C' = C_Diag(C)
    /\ epc' = "D_cc"
    /\ UNCHANGED <<warnings, func, norb, F, E_nuc, n, h_NO, J_NO, K_NO, D, B, E1, E2, E_ret>>
    /\ UNCHANGED <<vqeVars, noVars, run2, callVars>>

BuildD_CoreCore ==
    /\ epc = "D_cc"
    /\ D' = D_CoreCore(Zeros)
    /\ epc' = "D_diag"
    /\ UNCHANGED <<warnings, func, norb, F, E_nuc, n, h_NO, J_NO, K_NO, C, B, E1, E2, E_ret>>
    /\ UNCHANGED <<vqeVars, noVars, run2, callVars>>

BuildD_Diag ==
    /\ epc = "D_diag"
    /\ D' = D_Diag(D)
    /\ epc' = "D_cross"
    /\ UNCHANGED <<warnings, func, norb, F, E_nuc, n, h_NO, J_NO, K_NO, C, B, E1, E2, E_ret>>
    /\ UNCHANGED <<vqeVars, noVars, run2, callVars>>

BuildD_Cross ==
    /\ epc = "D_cross"
    /\ D' = D_Cross(D)
    /\ epc' = "B"
    /\ UNCHANGED <<warnings, func, norb, F, E_nuc, n, h_NO, J_NO, K_NO, C, B, E1, E2, E_ret>>
    /\ UNCHANGED <<vqeVars, noVars, run2, callVars>>

BuildB ==
    /\ epc = "B"
    /\ B' = B_Final(D, C)
    /\ epc' = "E1"
    /\ UNCHANGED <<warnings, func, norb, F, E_nuc, n, h_NO, J_NO, K_NO, C, D, E1, E2, E_ret>>
    /\ UNCHANGED <<vqeVars, noVars, run2, callVars>>

SumE1 ==
    /\ epc = "E1"
    /\ E1' = E1_Loop(norb)
    /\ epc' = "E2"
    /\ UNCHANGED <<warnings, func, norb, F, E_nuc, n, h_NO, J_NO, K_NO, C, D, B, E2, E_ret>>
    /\ UNCHANGED <<vqeVars, noVars, run2, callVars>>

SumE2_BBAC3 ==
    /\ epc = "E2"
    /\ func = "E_BBAC3"
    /\ E2' = E2_Loop_BBAC3(norb * norb, J_NO, K_NO)
    /\ epc' = "return"
    /\ UNCHANGED <<warnings, func, norb, F, E_nuc, n, h_NO, J_NO, K_NO, C, D, B, E1, E_ret>>
    /\ UNCHANGED <<vqeVars, noVars, run2, callVars>>

SumE2_HF ==
    /\ epc = "E2"
    /\ func = "E_HF"
    /\ E2' = E2_Loop_HF(norb * norb, J_NO, K_NO)
    /\ epc' = "return"
    /\ UNCHANGED <<warnings, func, norb, F, E_nuc, n, h_NO, J_NO, K_NO, C, D, B, E1, E_ret>>
    /\ UNCHANGED <<vqeVars, noVars, run2, callVars>>

ReturnEnergy ==
    /\ epc = "return"
    /\ E_ret' = E_Total
    /\ epc' = "done"
    /\ UNCHANGED <<warnings, func, norb, F, E_nuc, n, h_NO, J_NO, K_NO, C, D, B, E1, E2>>
    /\ UNCHANGED <<vqeVars, noVars, run2, callVars>>

NextEnergy ==
    \/ BuildC_VirtVirt
    \/ BuildC_CoreCore
    \/ BuildC_Cross
    \/ BuildC_Diag
    \/ BuildD_CoreCore
    \/ BuildD_Diag
    \/ BuildD_Cross
    \/ BuildB
    \/ SumE1
    \/ SumE2_BBAC3
    \/ SumE2_HF
    \/ ReturnEnergy

SpecEnergy == InitEnergy /\ [][NextEnergy]_vars


(***************************************************************************)
(* Properties of E_BBAC3 and E_HF.  The formulas below are written from    *)
(* the statements, with their own sums and their own damping function.     *)
(***************************************************************************)
\* all pairs (p, q), column by column
AllPairs == [t \in 1..(norb * norb) |-> <<(t - 1) % norb, (t - 1) \div norb>>]

\* sum_p 2 n_p h_pp
Doc_OneElectron == QSumSeq([t \in 1..norb |-> QMul(Q2, QMul(n[t - 1], h_NO[t - 1][t - 1]))])

\* D_k(x) = P^2 / (1 + P^2) with P = a x^2 (x^2 - 2), as 1 - 1/(1 + P^2)
Doc_Damping(a, x) ==
    LET x2 == QMul(x, x)
        P  == QMul(a, QSub(QMul(x2, x2), QMul(Q2, x2)))
    IN  QSub(Q1, QDiv(Q1, QAdd(Q1, QMul(P, P))))

Doc_a_d == QFrac(14423, 10000)

Doc_a_o == QFrac(15552, 10000)

\* the E2 summand of C7 with B = (1 - D) * C read at the transposed index
C7_Summand(p, q) ==
    LET Bqp == QMul(QSub(Q1, D[q][p]), C[q][p])
        nn  == QMul(n[p], n[q])
    IN  QAdd(QMul(QMul(Q2, nn), J_NO[p][q]),
             QMul(QFrac(1, 2), QMul(QSub(Bqp, QMul(Q2, nn)), K_NO[p][q])))

C7_Formula ==
    QAdd(E_nuc, QAdd(Doc_OneElectron,
        QSumSeq([t \in 1..(norb * norb) |-> C7_Summand(AllPairs[t][1], AllPairs[t][2])])))

\* C7: E_BBAC3 returns E_nuc + sum_p 2 n_p h_pp + the sum over all pairs,
\* diagonal included, of 2 n_q n_p J_pq + 0.5 (-2 n_p n_q + B[q,p]) K_pq
\* with B = (1 - D) * C.
C7_BBAC3EnergyFormula ==
    (epc = "done" /\ func = "E_BBAC3") => QEq(E_ret, C7_Formula)

\* an evaluation with a core and a virtual orbital, a fractional occupation and
\* Coulomb and exchange integrals on and off the diagonal
C7_Witness ==
    /\ epc = "done"
    /\ func = "E_BBAC3"
    /\ norb >= 2 /\ F = 1
    /\ QEq(n[1], QFrac(1, RootDen * RootDen))
    /\ QSign(J_NO[0][0]) # 0 /\ QSign(K_NO[0][1]) # 0 /\ QSign(J_NO[0][1]) # 0
    /\ QSign(E2) # 0

\* the documented BBAC3 coefficient B_pq (0-based blocks [0,F) and [F,norb))
Doc_B_BBAC3(p, q) ==
    LET nn == QMul(n[p], n[q])
        s  == QSqrt(QAbs(nn))
    IN  IF p = q
          THEN QAdd(s, QMul(QSub(nn, s),
                            Doc_Damping(Doc_a_d, QSub(QMul(Q2, n[p]), Q1))))
        ELSE IF p < F /\ q < F THEN nn
        ELSE IF p >= F /\ q >= F THEN QNeg(s)
        ELSE QAdd(s, QMul(QSub(nn, s),
                          Doc_Damping(Doc_a_o,
                              QSub(QAdd(QMul(Q2, n[p]), QMul(Q2, n[q])), Q2))))

\* C8: for non-negative n and every F, the factor of -K_NO[p,q] in E2,
\* n_p n_q - B[q,p]/2, is the documented BBAC3 coefficient of the pair.
C8_ExchangeCoefficient ==
    (func = "E_BBAC3" /\ epc \in {"E1", "E2", "return", "done"}
        /\ \A p \in Orb : QSign(n[p]) >= 0) =>
        \A p \in Orb : \A q \in Orb :
            QEq(QSub(QMul(n[p], n[q]), QMul(QFrac(1, 2), B[q][p])), Doc_B_BBAC3(p, q))

\* B is built for a core and a virtual orbital with fractional occupations:
\* the diagonal and the cross-block damping are both strictly between 0 and 1
C8_Witness ==
    /\ func = "E_BBAC3"
    /\ epc = "E1"
    /\ norb >= 2 /\ F = 1
    /\ QSign(B[0][1]) # 0 /\ QSign(B[1][1]) # 0
    /\ QSign(D[0][1]) # 0 /\ QSign(D[1][1]) # 0

C9_Formula ==
    LET offdiag == SelectSeq(AllPairs, LAMBDA pq : pq[1] # pq[2])
    IN  QAdd(E_nuc, QAdd(Doc_OneElectron,
            QSumSeq([t \in 1..Len(offdiag) |->
                LET p == offdiag[t][1]
                    q == offdiag[t][2]
                IN  QMul(QMul(n[q], n[p]),
                         QSub(QMul(Q2, J_NO[p][q]), K_NO[p][q]))])))

C10_Formula ==
    LET A(p, q)  == QMul(Q2, QMul(n[p], n[q]))
        Bc(p, q) == QMul(n[p], n[q])
        sumAJ == QSumSeq([t \in 1..(norb * norb) |->
                     QMul(A(AllPairs[t][1], AllPairs[t][2]),
                          J_NO[AllPairs[t][2]][AllPairs[t][1]])])
        sumBK == QSumSeq([t \in 1..(norb * norb) |->
                     QMul(Bc(AllPairs[t][1], AllPairs[t][2]),
                          K_NO[AllPairs[t][2]][AllPairs[t][1]])])
    IN  QAdd(E_nuc, QAdd(Doc_OneElectron, QSub(sumAJ, sumBK)))

\* C10: E_HF equals E_nuc + 2 sum_p n_p H_pp + sum_pq A_pq J_qp - sum_pq B_pq K_qp
\* with A_pq = 2 n_p n_q and B_pq = n_p n_q over every pair (p, q).
C10_HFEqualsDocumentedExpression ==
    (epc = "done" /\ func = "E_HF") => QEq(E_ret, C10_Formula)

\* the amount by which the two-electron sum of the evaluated functional grows
\* when J_NO[p, q] alone grows by one: the coefficient it applies to J_NO[p, q]
CoulombCoefficient(p, q) ==
    LET Jpq == UnitM(norb, {<<p, q>>})
    IN  IF func = "E_BBAC3"
          THEN QSub(E2_Loop_BBAC3(norb * norb, Jpq, Zeros),
                    E2_Loop_BBAC3(norb * norb, Zeros, Zeros))
          ELSE QSub(E2_Loop_HF(norb * norb, Jpq, Zeros),
                    E2_Loop_HF(norb * norb, Zeros, Zeros))

\* what is left of the two-electron sum once J_NO and K_NO vanish
NoOtherIntegral ==
    IF func = "E_BBAC3" THEN E2_Loop_BBAC3(norb * norb, Zeros, Zeros)
                        ELSE E2_Loop_HF(norb * norb, Zeros, Zeros)

\* C11: for E_HF and for E_BBAC3 and every occupation vector the Coulomb
\* coefficient is A[p,q] = 2 n_p n_q for every pair, the diagonal included, and
\* no term besides the J and K ones enters the two-electron sum (C = 0).
C11_CoulombCoefficientEverywhere ==
    epc = "done" =>
        /\ \A p \in Orb : \A q \in Orb :
               QEq(CoulombCoefficient(p, q), QMul(Q2, QMul(n[p], n[q])))
        /\ QSign(NoOtherIntegral) = 0

(***************************************************************************)
(* get_no_on: the triangular vector rdm1 is unpacked into the symmetric    *)
(* matrix rdm1_aa, jnp.linalg.eigh diagonalises it, and both results are   *)
(* reversed.  Matrices are M[row][column]; Python index k is index k here, *)
(* except for the sequence rdm1.                                           *)
(***************************************************************************)
\* the pairs (p, q) of `for p in range(0, norb): for q in range(p, norb)`, in loop order
RowMajor(nb) == [t \in 1..(nb * nb) |-> <<(t - 1) \div nb, (t - 1) % nb>>]

TriPairs(nb) == SelectSeq(RowMajor(nb), LAMBDA pq : pq[1] <= pq[2])

\* rdm1[i]: a Python sequence raises IndexError past its end, a jax array
\* clamps the index to its last entry
InRange(i) == i < Len(rdm1)

ReadRdm1(i) ==
    IF InRange(i) THEN rdm1[i + 1] ELSE rdm1[Len(rdm1)]

\* i = -1 before the loops and i = i + 1 at the head of every pass: the value
\* of i in pass t
RECURSIVE IndexAt(_)
IndexAt(t) == IF t = 0 THEN -1 ELSE IndexAt(t - 1) + 1

\* mutant: only rdm1_aa[p, q] is set
WritesOf_UpperOnly(pq) == {pq}

\* the entries set in the pass for the pair pq: rdm1_aa[p, q] and rdm1_aa[q, p]
WritesOf(pq) == {pq, <<pq[2], pq[1]>>}

\* rdm1_aa after the first t passes of the inner loop body; pass t reads rdm1[i]
\* and sets rdm1_aa[p, q] and rdm1_aa[q, p] to it
RECURSIVE FillLoop(_)
FillLoop(t) ==
    IF t = 0 THEN ZerosOf(norb)
    ELSE LET M  == FillLoop(t - 1)
             pq == TriPairs(norb)[t]
             i  == IndexAt(t)
         IN  [r \in Orb |-> [c \in Orb |->
                 IF <<r, c>> \in WritesOf(pq) THEN ReadRdm1(i) ELSE M[r][c]]]

\* some pass of the loop indexes a Python sequence past its end
FillRaises ==
    kind = "list" /\ \E t \in 1..Len(TriPairs(norb)) : ~InRange(IndexAt(t))

MatMul(X, Y) ==
    [r \in Orb |-> [c \in Orb |-> QSumSeq([t \in 1..norb |-> QMul(X[r][t - 1], Y[t - 1][c])])]]

Transpose(X) == [r \in Orb |-> [c \in Orb |-> X[c][r]]]

IdentityOf(nb) == [r \in OrbOf(nb) |-> [c \in OrbOf(nb) |-> IF r = c THEN Q1 ELSE Q0]]

\* a rotation by the angle with cosine 3/5 in the plane of orbitals 0 and 1
RotationOf(nb) ==
    [r \in OrbOf(nb) |-> [c \in OrbOf(nb) |->
        IF nb < 2 \/ r > 1 \/ c > 1 THEN (IF r = c THEN Q1 ELSE Q0)
        ELSE IF r = c THEN QFrac(3, 5)
        ELSE IF r = 0 THEN QFrac(-4, 5) ELSE QFrac(4, 5)]]

SeedVecs(nb) == {IdentityOf(nb), RotationOf(nb)}

PermsOf(nb) == {f \in [OrbOf(nb) -> OrbOf(nb)] : \A a, b \in OrbOf(nb) : f[a] = f[b] => a = b}

SignPatterns(nb) ==
    {[k \in OrbOf(nb) |-> 1], [k \in OrbOf(nb) |-> IF k % 2 = 0 THEN -1 ELSE 1]}

\* orthonormal bases: the columns of a seed, reordered and with signs
OrthoMats(nb) ==
    {[r \in OrbOf(nb) |-> [c \in OrbOf(nb) |->
          IF sg[c] = 1 THEN V[r][f[c]] ELSE QNeg(V[r][f[c]])]] :
        V \in SeedVecs(nb), f \in PermsOf(nb), sg \in SignPatterns(nb)}

IsDiagonal(M) == \A r \in Orb : \A c \in Orb : r # c => QSign(M[r][c]) = 0

IsAscending(w) == \A k \in Orb : k + 1 < norb => QLe(w[k], w[k + 1])

\* jnp.linalg.eigh(G): eigenvalues in ascending order, the k-th eigenvector in
\* column k.  The basis is not unique (signs, degenerate eigenvalues): every
\* orthonormal basis of OrthoMats that diagonalises G in ascending order is a
\* possible result.
EighResults(G) ==
    {[w |-> [k \in Orb |-> MatMul(Transpose(V), MatMul(G, V))[k][k]], v |-> V] :
        V \in {V \in OrthoMats(norb) :
                 LET T == MatMul(Transpose(V), MatMul(G, V))
                 IN  IsDiagonal(T) /\ IsAscending([k \in Orb |-> T[k][k]])}}

\* mutant: eigh may give another decomposition each time it is called
EighOf_Fresh(G) == EighResults(G)

\* eigh is a function of its argument: a matrix it has decomposed before gets
\* the same result again
EighOf(G) ==
    IF \E m \in eigh_memo : m[1] = G
    THEN {m[2] : m \in {m \in eigh_memo : m[1] = G}}
    ELSE EighResults(G)

\* n[::-1]
ReverseSeq(w) == [k \in Orb |-> w[norb - 1 - k]]

\* vecs[:, ::-1]
ReverseCols(V) == [r \in Orb |-> [c \in Orb |-> V[r][norb - 1 - c]]]

\* bound: the surplus or missing entries of an rdm1 of the wrong length
MaxLenOff == 1

OccVals == {Occ(r) : r \in 0..RootDen}

\* symmetric matrices with eigenvalues among the occupation values
RdmMats(nb) ==
    {[r \in OrbOf(nb) |-> [c \in OrbOf(nb) |->
          QSumSeq([t \in 1..nb |-> QMul(QMul(V[r][t - 1], w[t - 1]), V[c][t - 1])])]] :
        V \in SeedVecs(nb), w \in [OrbOf(nb) -> OccVals]}

\* the upper triangle of G in the order of TriPairs
TriangleOf(nb, G) == [t \in 1..Len(TriPairs(nb)) |-> G[TriPairs(nb)[t][1]][TriPairs(nb)[t][2]]]

\* the triangle itself, and the triangle with entries missing or appended
Rdm1Inputs(nb) ==
    UNION {{TriangleOf(nb, G)}
           \cup {SubSeq(TriangleOf(nb, G), 1, Len(TriPairs(nb)) - d) : d \in 1..MaxLenOff}
           \cup {TriangleOf(nb, G) \o [t \in 1..d |-> QFrac(1, 2)] : d \in 1..MaxLenOff} :
        G \in RdmMats(nb)}

\* the call get_no_on(rdm1); a jax array given as rdm1 has at least one entry
InitNO ==
    /\ VqeIdle
    /\ epc = "fill" /\ func = Unset /\ F = 0 /\ E_nuc = Unset /\ n = Unset
    /\ h_NO = Unset /\ J_NO = Unset /\ K_NO = Unset
    /\ C = Unset /\ D = Unset /\ B = Unset /\ E1 = Unset /\ E2 = Unset /\ E_ret = Unset
    /\ warnings = <<>>
    /\ h_MO = Unset /\ I_MO = Unset
    /\ norb \in 1..MaxNorb
    /\ kind \in {"list", "array"}
    /\ rdm1 \in Rdm1Inputs(norb)
    /\ kind = "array" => Len(rdm1) >= 1
    /\ rdm1_aa = Unset /\ eig = Unset /\ vecs = Unset
    /\ no_ret = <<>> /\ raised = "none"
    /\ CallIdle

\* rdm1_aa = jnp.zeros((norb, norb)); the two loops
Reconstruct ==
    /\ epc = "fill"
    /\ ~FillRaises
    /\ rdm1_aa' = FillLoop(Len(TriPairs(norb)))
    /\ epc' = "eigh"
    /\ UNCHANGED <<kind, rdm1, eig, vecs, no_ret, raised, h_MO, I_MO>>
    /\ UNCHANGED <<warnings, func, norb, F, E_nuc, n, h_NO, J_NO, K_NO, C, D, B, E1, E2, E_ret>>
    /\ UNCHANGED <<vqeVars, run2, callVars>>

\* rdm1[i] raises IndexError inside the loops; nothing catches it
ReconstructRaises ==
    /\ epc = "fill"
    /\ FillRaises
    /\ raised' = "IndexError"
    /\ epc' = "raised"
    /\ UNCHANGED <<kind, rdm1, rdm1_aa, eig, vecs, no_ret, h_MO, I_MO>>
    /\ UNCHANGED <<warnings, func, norb, F, E_nuc, n, h_NO, J_NO, K_NO, C, D, B, E1, E2, E_ret>>
    /\ UNCHANGED <<vqeVars, run2, callVars>>

\* n, vecs = jnp.linalg.eigh(rdm1_aa)
Eigh ==
    /\ epc = "eigh"
    /\ \E r \in EighOf(rdm1_aa) :
           /\ eig' = r
           /\ n' = r.w
           /\ vecs' = r.v
           /\ eigh_memo' = eigh_memo \cup {<<rdm1_aa, r>>}
    /\ epc' = "rev_n"
    /\ UNCHANGED <<kind, rdm1, rdm1_aa, no_ret, raised, h_MO, I_MO>>
    /\ UNCHANGED <<warnings, func, norb, F, E_nuc, h_NO, J_NO, K_NO, C, D, B, E1, E2, E_ret>>
    /\ UNCHANGED <<vqeVars, run2, rdm1_ops, op_pq, gamma, call>>

\* n = n[::-1]
ReverseN ==
    /\ epc = "rev_n"
    /\ n' = ReverseSeq(n)
    /\ epc' = "rev_vecs"
    /\ UNCHANGED <<kind, rdm1, rdm1_aa, eig, vecs, no_ret, raised, h_MO, I_MO>>
    /\ UNCHANGED <<warnings, func, norb, F, E_nuc, h_NO, J_NO, K_NO, C, D, B, E1, E2, E_ret>>
    /\ UNCHANGED <<vqeVars, run2, callVars>>

\* mutant: the columns of vecs keep the order of eigh
ReverseVecs_Skipped ==
    /\ epc = "rev_vecs"
    /\ vecs' = vecs
    /\ epc' = "no_return"
    /\ UNCHANGED <<kind, rdm1, rdm1_aa, eig, no_ret, raised, h_MO, I_MO>>
    /\ UNCHANGED <<warnings, func, norb, F, E_nuc, n, h_NO, J_NO, K_NO, C, D, B, E1, E2, E_ret>>
    /\ UNCHANGED <<vqeVars, run2, callVars>>

\* vecs = vecs[:, ::-1]
ReverseVecs ==
    /\ epc = "rev_vecs"
    /\ vecs' = ReverseCols(vecs)
    /\ epc' = "no_return"
    /\ UNCHANGED <<kind, rdm1, rdm1_aa, eig, no_ret, raised, h_MO, I_MO>>
    /\ UNCHANGED <<warnings, func, norb, F, E_nuc, n, h_NO, J_NO, K_NO, C, D, B, E1, E2, E_ret>>
    /\ UNCHANGED <<vqeVars, run2, callVars>>

\* return n, vecs
ReturnNO ==
    /\ epc = "no_return"
    /\ no_ret' = <<n, vecs>>
    /\ epc' = "no_done"
    /\ UNCHANGED <<kind, rdm1, rdm1_aa, eig, vecs, raised, h_MO, I_MO>>
    /\ UNCHANGED <<warnings, func, norb, F, E_nuc, n, h_NO, J_NO, K_NO, C, D, B, E1, E2, E_ret>>
    /\ UNCHANGED <<vqeVars, run2, callVars>>

NextNO ==
    \/ Reconstruct
    \/ ReconstructRaises
    \/ Eigh
    \/ ReverseN
    \/ ReverseVecs
    \/ ReturnNO

SpecNO == InitNO /\ [][NextNO]_vars

\* column k of V
ColumnOf(V, k) == [r \in Orb |-> V[r][k]]

\* G x = lambda x
IsEigenpair(G, lam, x) ==
    \A r \in Orb : QEq(QSumSeq([t \in 1..norb |-> QMul(G[r][t - 1], x[t - 1])]), QMul(lam, x[r]))

\* C12: eigh returning ascending eigenvalues with the k-th eigenvector in
\* column k, get_no_on returns n in non-increasing order and vecs with the
\* columns of eigh in reversed order, so that column k of vecs is an
\* eigenvector of rdm1_aa for the eigenvalue n[k].
C12_DescendingMatchedPairs ==
    epc = "no_done" =>
        /\ no_ret = <<n, vecs>>
        /\ \A k \in Orb : k + 1 < norb => QLe(n[k + 1], n[k])
        /\ \A k \in Orb :
              /\ n[k] = eig.w[norb - 1 - k]
              /\ ColumnOf(vecs, k) = ColumnOf(eig.v, norb - 1 - k)
              /\ IsEigenpair(rdm1_aa, n[k], ColumnOf(vecs, k))

\* a returned decomposition of a non-diagonal matrix with two distinct eigenvalues
C12_Witness ==
    /\ epc = "no_done"
    /\ norb >= 2
    /\ QSign(rdm1_aa[0][1]) # 0
    /\ ~QEq(n[0], n[1])
    /\ Len(rdm1) = Len(TriPairs(norb))

\* C13: whenever the length of rdm1 is not norb*(norb+1)/2, too short or too
\* long, get_no_on leaves with an error and returns no occupations.
C13_WrongLengthFails ==
    (Len(rdm1) # (norb * (norb + 1)) \div 2 /\ epc \in {"eigh", "rev_n", "rev_vecs", "no_return", "no_done", "raised"}) =>
        /\ raised # "none"
        /\ no_ret = <<>>

(***************************************************************************)
(* The transformation of h_MO and I_MO to the natural-orbital basis.       *)
(* I_MO[<<i, j, k, l>>] is the entry I_MO[i, j, k, l].                     *)
(***************************************************************************)
\* jnp.einsum("ij,ip,jq->pq", h, V, V)
EinsumH(h, V) ==
    [p \in Orb |-> [q \in Orb |->
        QSumSeq([t \in 1..(norb * norb) |->
            LET i == RowMajor(norb)[t][1]
                j == RowMajor(norb)[t][2]
            IN  QMul(QMul(h[i][j], V[i][p]), V[j][q])])]]

\* mutant: J_NO contracted with the subscripts of K_NO
EinsumJ_ExchangeSubscripts(I, V) ==
    [p \in Orb |-> [q \in Orb |->
        QSumSeq([i \in 1..norb |-> QSumSeq([j \in 1..norb |->
        QSumSeq([k \in 1..norb |-> QSumSeq([l \in 1..norb |->
            LET x == <<i - 1, j - 1, k - 1, l - 1>>
            IN  IF QSign(I[x]) = 0 THEN Q0
                ELSE QMul(QMul(QMul(QMul(I[x], V[x[1]][p]), V[x[2]][p]), V[x[3]][q]), V[x[4]][q])])])])])]]

\* jnp.einsum("ijkl,ip,jq,kq,lp->pq", I, V, V, V, V)
EinsumJ(I, V) ==
    [p \in Orb |-> [q \in Orb |->
        QSumSeq([i \in 1..norb |-> QSumSeq([j \in 1..norb |->
        QSumSeq([k \in 1..norb |-> QSumSeq([l \in 1..norb |->
            LET x == <<i - 1, j - 1, k - 1, l - 1>>
            IN  IF QSign(I[x]) = 0 THEN Q0
                ELSE QMul(QMul(QMul(QMul(I[x], V[x[1]][p]), V[x[2]][q]), V[x[3]][q]), V[x[4]][p])])])])])]]

\* mutant: the third factor of K_NO contracted with column p
EinsumK_ThreeOne(I, V) ==
    [p \in Orb |-> [q \in Orb |->
        QSumSeq([i \in 1..norb |-> QSumSeq([j \in 1..norb |->
        QSumSeq([k \in 1..norb |-> QSumSeq([l \in 1..norb |->
            LET x == <<i - 1, j - 1, k - 1, l - 1>>
            IN  IF QSign(I[x]) = 0 THEN Q0
                ELSE QMul(QMul(QMul(QMul(I[x], V[x[1]][p]), V[x[2]][p]), V[x[3]][p]), V[x[4]][q])])])])])]]

\* jnp.einsum("ijkl,ip,jp,kq,lq->pq", I, V, V, V, V)
EinsumK(I, V) ==
    [p \in Orb |-> [q \in Orb |->
        QSumSeq([i \in 1..norb |-> QSumSeq([j \in 1..norb |->
        QSumSeq([k \in 1..norb |-> QSumSeq([l \in 1..norb |->
            LET x == <<i - 1, j - 1, k - 1, l - 1>>
            IN  IF QSign(I[x]) = 0 THEN Q0
                ELSE QMul(QMul(QMul(QMul(I[x], V[x[1]][p]), V[x[2]][p]), V[x[3]][q]), V[x[4]][q])])])])])]]

\* qml.qchem.electron_integrals: I_MO[p, q, r, s] is the integral of
\* phi_p(1) phi_q(2) phi_r(2) phi_s(1) / r12 over real orbitals.  It is unchanged
\* when p and s are exchanged, when q and r are exchanged, and when the pair
\* (p, s) is exchanged with the pair (q, r): the index tuples of equal value.
SymOrbit(x) ==
    {<<x[1], x[2], x[3], x[4]>>, <<x[4], x[2], x[3], x[1]>>,
     <<x[1], x[3], x[2], x[4]>>, <<x[4], x[3], x[2], x[1]>>,
     <<x[2], x[1], x[4], x[3]>>, <<x[3], x[1], x[4], x[2]>>,
     <<x[2], x[4], x[1], x[3]>>, <<x[3], x[4], x[1], x[2]>>}

QuadSet(nb) == OrbOf(nb) \X OrbOf(nb) \X OrbOf(nb) \X OrbOf(nb)

\* a dense tensor with the symmetry of SymOrbit
DenseI(nb) ==
    LET g(a, b) == (a + 1) * (b + 1) + 5 * (a + b)
    IN  [x \in QuadSet(nb) |->
            QInt(g(x[1], x[4]) + g(x[2], x[3]) + g(x[1], x[4]) * g(x[2], x[3]))]

\* the dense tensor and, for every class of equal entries, the tensor that is
\* one on the class and zero elsewhere
I_MO_Inputs(nb) ==
    {DenseI(nb)}
    \cup {[x \in QuadSet(nb) |-> IF x \in SymOrbit(y) THEN Q1 ELSE Q0] : y \in QuadSet(nb)}

\* a dense symmetric one-electron matrix
h_MO_Input(nb) == [p \in OrbOf(nb) |-> [q \in OrbOf(nb) |-> QFrac(-(2 + p + q + 2 * p * q), 2)]]

\* E_BBAC3 / E_HF right after n, vecs = get_no_on(rdm1)
InitTransform ==
    /\ VqeIdle
    /\ epc = "h_NO" /\ func = Unset /\ F = 0 /\ E_nuc = Unset /\ n = Unset
    /\ h_NO = Unset /\ J_NO = Unset /\ K_NO = Unset
    /\ C = Unset /\ D = Unset /\ B = Unset /\ E1 = Unset /\ E2 = Unset /\ E_ret = Unset
    /\ warnings = <<>>
    /\ kind = Unset /\ rdm1 = <<>> /\ rdm1_aa = Unset /\ eig = Unset
    /\ no_ret = <<>> /\ raised = "none"
    /\ norb \in 1..MaxNorb
    /\ vecs \in OrthoMats(norb)
    /\ h_MO = h_MO_Input(norb)
    /\ I_MO \in I_MO_Inputs(norb)
    /\ CallIdle

\* h_NO = jnp.einsum("ij,ip,jq->pq", h_MO, vecs, vecs, optimize=True)
TransformH ==
    /\ epc = "h_NO"
    /\ h_NO' = EinsumH(h_MO, vecs)
    /\ epc' = "J_NO"
    /\ UNCHANGED <<warnings, func, norb, F, E_nuc, n, J_NO, K_NO, C, D, B, E1, E2, E_ret>>
    /\ UNCHANGED <<vqeVars, noVars, run2, callVars>>

\* J_NO = jnp.einsum("ijkl,ip,jq,kq,lp->pq", I_MO, vecs, vecs, vecs, vecs, optimize=True)
TransformJ ==
    /\ epc = "J_NO"
    /\ J_NO' = EinsumJ(I_MO, vecs)
    /\ epc' = "K_NO"
    /\ UNCHANGED <<warnings, func, norb, F, E_nuc, n, h_NO, K_NO, C, D, B, E1, E2, E_ret>>
    /\ UNCHANGED <<vqeVars, noVars, run2, callVars>>

\* K_NO = jnp.einsum("ijkl,ip,jp,kq,lq->pq", I_MO, vecs, vecs, vecs, vecs, optimize=True)
TransformK ==
    /\ epc = "K_NO"
    /\ K_NO' = EinsumK(I_MO, vecs)
    /\ epc' = "transformed"
    /\ UNCHANGED <<warnings, func, norb, F, E_nuc, n, h_NO, J_NO, C, D, B, E1, E2, E_ret>>
    /\ UNCHANGED <<vqeVars, noVars, run2, callVars>>

NextTransform ==
    \/ TransformH
    \/ TransformJ
    \/ TransformK

SpecTransform == InitTransform /\ [][NextTransform]_vars

IsIdentity(V) == \A r \in Orb : \A c \in Orb : QEq(V[r][c], IF r = c THEN Q1 ELSE Q0)

\* C14: with vecs the identity, h_NO = h_MO, J_NO[p,q] = I_MO[p,q,q,p],
\* K_NO[p,q] = I_MO[p,p,q,q], and J_NO[p,p] = K_NO[p,p] = I_MO[p,p,p,p].
C14_IdentityRotation ==
    (epc = "transformed" /\ IsIdentity(vecs)) =>
        \A p \in Orb :
            /\ \A q \in Orb :
                  /\ QEq(h_NO[p][q], h_MO[p][q])
                  /\ QEq(J_NO[p][q], I_MO[<<p, q, q, p>>])
                  /\ QEq(K_NO[p][q], I_MO[<<p, p, q, q>>])
            /\ QEq(J_NO[p][p], K_NO[p][p])
            /\ QEq(J_NO[p][p], I_MO[<<p, p, p, p>>])

\* the dense integrals transformed with the identity: Coulomb and exchange differ
C14_Witness ==
    /\ epc = "transformed"
    /\ IsIdentity(vecs)
    /\ norb >= 2
    /\ ~QEq(I_MO[<<0, 1, 1, 0>>], I_MO[<<0, 0, 1, 1>>])
    /\ QSign(K_NO[0][1]) # 0

HasEightfoldSymmetry(I) == \A x \in DOMAIN I : \A y \in SymOrbit(x) : I[y] = I[x]

\* C15: for I_MO with the eight-fold permutational symmetry and every vecs,
\* J_NO and K_NO are symmetric matrices.
C15_SymmetricJK ==
    (epc = "transformed" /\ HasEightfoldSymmetry(I_MO)) =>
        \A p \in Orb : \A q \in Orb :
            /\ QEq(J_NO[p][q], J_NO[q][p])
            /\ QEq(K_NO[p][q], K_NO[q][p])

\* dense integrals rotated by a matrix that mixes two orbitals
C15_Witness ==
    /\ epc = "transformed"
    /\ norb >= 2
    /\ QSign(vecs[0][0]) # 0 /\ QSign(vecs[0][1]) # 0
    /\ HasEightfoldSymmetry(I_MO)
    /\ QSign(I_MO[<<0, 0, 0, 1>>]) # 0
    /\ QSign(J_NO[0][1]) # 0 /\ QSign(K_NO[0][1]) # 0
    /\ ~QEq(J_NO[0][1], K_NO[0][1])

(***************************************************************************)
(* vqe when a call of E_fn or of jax.grad(E_fn) raises.  vqe has no try    *)
(* statement: the exception leaves vqe at the call.  stop = "raised"       *)
(* records that a call has raised.                                         *)
(***************************************************************************)
\* E_history = [E_fn(params)] raises: opt_state is bound, the histories are not
EnterRaises ==
    /\ pc = "entry"
    /\ opt_state' = OptInit(params)
    /\ stop' = "raised"
    /\ pc' = "raised"
    /\ UNCHANGED <<nofVars, noVars, run2, callVars>>
    /\ UNCHANGED <<arg_params, E_fn, max_iterations, conv_tol, params, gradient, it,
                   E_history, params_history, ret>>

\* mutant: the exception is swallowed and the loop goes on
EvalGradientRaises_Swallowed ==
    /\ pc = "grad"
    /\ stop' = "raised"
    /\ pc' = "for"
    /\ UNCHANGED <<nofVars, noVars, run2, callVars>>
    /\ UNCHANGED <<arg_params, E_fn, max_iterations, conv_tol, params, opt_state, gradient, it,
                   E_history, params_history, ret>>

\* gradient = jax.grad(E_fn)(params) raises
EvalGradientRaises ==
    /\ pc = "grad"
    /\ stop' = "raised"
    /\ pc' = "raised"
    /\ UNCHANGED <<nofVars, noVars, run2, callVars>>
    /\ UNCHANGED <<arg_params, E_fn, max_iterations, conv_tol, params, opt_state, gradient, it,
                   E_history, params_history, ret>>

\* params_history.append(params) is done, then E_fn(params) raises
AppendHistoriesRaises ==
    /\ pc = "append"
    /\ params_history' = Append(params_history, params)
    /\ stop' = "raised"
    /\ pc' = "raised"
    /\ UNCHANGED <<nofVars, noVars, run2, callVars>>
    /\ UNCHANGED <<arg_params, E_fn, max_iterations, conv_tol, params, opt_state, gradient, it,
                   E_history, ret>>

NextFail ==
    \/ Next
    \/ EnterRaises
    \/ EvalGradientRaises
    \/ AppendHistoriesRaises

SpecFail == Init /\ [][NextFail]_vars

C16_FailedState == stop = "raised" => (pc = "raised" /\ ret = <<>>)

C16_NoStepAfterFailure == stop = "raised" => UNCHANGED vqeVars

\* C16: once a call of E_fn or of the gradient has raised, at the initial
\* evaluation or in an iteration, vqe is left at once: no statement of vqe runs
\* any more (no retry, no further iteration) and nothing is returned.
C16_FailurePropagates == [](C16_FailedState) /\ [][C16_NoStepAfterFailure]_vars

\* a failure in a later iteration, with entries already in both histories
C16_Witness ==
    /\ pc = "raised"
    /\ it >= 1
    /\ Len(E_history) >= 2
    /\ Len(params_history) = Len(E_history)
    /\ ret = <<>>

\* a noise threshold for negative occupation products
NoiseThreshold == QFrac(1, 100)

\* C17: when a product n[p] * n[q] used by the C loops of E_BBAC3 is below
\* minus the noise threshold, a warning-level signal is emitted.
C17_NegativeProductSignalled ==
    (func = "E_BBAC3" /\ epc \in {"D_cc", "D_diag", "D_cross", "B", "E1", "E2", "return", "done"}
        /\ \E p \in Orb : \E q \in Orb :
               QSign(QAdd(QMul(n[p], n[q]), NoiseThreshold)) < 0) =>
        warnings # <<>>

(***************************************************************************)
(* Two calls of vqe in progress at once.  The first call is the one of     *)
(* the variables of vqe above; the locals of the second call are the       *)
(* fields of run2.  Both read the globals max_iterations and conv_tol.     *)
(***************************************************************************)
\* the locals of a call vqe(f, p) before its first statement
StartOf(f, p) ==
    [pc |-> "entry", E_fn |-> f, arg_params |-> p, params |-> p, opt_state |-> <<"unset">>,
     gradient |-> ZeroVec, it |-> -1, E_history |-> <<>>, params_history |-> <<>>, ret |-> <<>>]

\* the next statement of vqe on the locals s of a call
VqeStep(s) ==
    CASE s.pc = "entry" ->
           [s EXCEPT !.opt_state = OptInit(s.params),
                     !.E_history = <<CallE(s.E_fn, s.params)>>,
                     !.params_history = <<s.params>>,
                     !.pc = "for"]
      [] s.pc = "for" ->
           IF s.it + 1 < max_iterations
             THEN [s EXCEPT !.it = s.it + 1, !.pc = "grad"]
             ELSE [s EXCEPT !.pc = "return"]
      [] s.pc = "grad" ->
           [s EXCEPT !.gradient = JaxGrad(s.E_fn, s.params), !.pc = "update"]
      [] s.pc = "update" ->
           LET r == OptUpdate(s.gradient, s.opt_state)
           IN  [s EXCEPT !.opt_state = r.state,
                         !.params = ApplyUpdates(s.params, r.updates),
                         !.pc = "append"]
      [] s.pc = "append" ->
           [s EXCEPT !.params_history = Append(s.params_history, s.params),
                     !.E_history = Append(s.E_history, CallE(s.E_fn, s.params)),
                     !.pc = "check"]
      [] s.pc = "check" ->
           IF Converged(s.gradient, conv_tol)
             THEN [s EXCEPT !.pc = "return"]
             ELSE [s EXCEPT !.pc = "for"]
      [] s.pc = "return" ->
           [s EXCEPT !.ret = <<s.E_history, s.params_history>>, !.pc = "done"]

\* what a call returns when its statements run one after the other, nothing in between
RECURSIVE RunAlone(_)
RunAlone(s) == IF s.pc = "done" THEN s.ret ELSE RunAlone(VqeStep(s))

\* initial parameter vectors of the two calls: all components equal
EqualVecs == {[i \in PIdx |-> v] : v \in InitVals}

InitTwo ==
    /\ NofIdle
    /\ NoIdle
    /\ pc = "entry"
    /\ E_fn \in EFns
    /\ max_iterations \in 0..MaxIterCap
    /\ conv_tol \in 0..MaxTol
    /\ arg_params \in EqualVecs
    /\ params = arg_params
    /\ opt_state = <<"unset">>
    /\ gradient = ZeroVec
    /\ it = -1
    /\ E_history = <<>>
    /\ params_history = <<>>
    /\ stop = "none"
    /\ ret = <<>>
    /\ run2 \in {StartOf(f, p) : f \in EFns, p \in EqualVecs}

\* mutant: E_history is one list shared by the calls; the second call appends to it too
Step2_SharedHistory ==
    /\ run2.pc # "done"
    /\ run2' = VqeStep(run2)
    /\ E_history' = IF run2.pc = "append"
                      THEN Append(E_history, CallE(run2.E_fn, run2.params))
                      ELSE E_history
    /\ UNCHANGED <<arg_params, pc, E_fn, max_iterations, conv_tol, params, opt_state, gradient, it,
                   params_history, stop, ret>>
    /\ UNCHANGED <<nofVars, noVars, callVars>>

\* one statement of the second call
Step2 ==
    /\ run2.pc # "done"
    /\ run2' = VqeStep(run2)
    /\ UNCHANGED <<vqeVars, nofVars, noVars, callVars>>

NextTwo ==
    \/ Next
    \/ Step2

SpecTwo == InitTwo /\ [][NextTwo]_vars

C18_ReturnsAsAlone ==
    /\ pc = "done" => ret = RunAlone(StartOf(E_fn, arg_params))
    /\ run2.pc = "done" => run2.ret = RunAlone(StartOf(run2.E_fn, run2.arg_params))

C18_OwnData ==
    /\ run2' # run2 => UNCHANGED vqeVars
    /\ <<params, opt_state, gradient, it, E_history, params_history, pc, ret>>'
           # <<params, opt_state, gradient, it, E_history, params_history, pc, ret>>
         => run2' = run2

\* C18: with the statements of two calls of vqe interleaved in any order, each
\* call returns the histories it returns when run alone, and a statement of
\* one call changes none of the locals (histories, params, optimizer state)
\* of the other.
C18_InterleavedRunsIndependent == [](C18_ReturnsAsAlone) /\ [][C18_OwnData]_vars

\* both calls have returned after two or more iterations each, with different histories
C18_Witness ==
    /\ pc = "done" /\ run2.pc = "done"
    /\ Len(ret[1]) >= 3 /\ Len(run2.ret[1]) >= 3
    /\ ret # run2.ret

(***************************************************************************)
(* The matrices C, D and B of E_BBAC3, entry by entry.  s(p, q) is         *)
(* sqrt(|n_p n_q|); the damping functions are Doc_Damping with Doc_a_d     *)
(* and Doc_a_o.                                                            *)
(***************************************************************************)
Doc_Root(p, q) == QSqrt(QAbs(QMul(n[p], n[q])))

\* c * sqrt(|n_p n_q|) + 2 n_p n_q
Doc_CRaw(c, p, q) == QAdd(QMul(QInt(c), Doc_Root(p, q)), QMul(Q2, QMul(n[p], n[q])))

Doc_D(p, q) ==
    IF p = q THEN Doc_Damping(Doc_a_d, QSub(QMul(Q2, n[p]), Q1))
    ELSE IF p < F /\ q < F THEN Q1
    ELSE IF p >= F /\ q >= F THEN Q0
    ELSE Doc_Damping(Doc_a_o, QSub(QAdd(QMul(Q2, n[p]), QMul(Q2, n[q])), Q2))

\* C22: for every n and F the matrix D of E_BBAC3 is 1 off the diagonal of the
\* core block, D_d(2 n_p - 1) on the diagonal, D_o(2 n_p + 2 n_q - 2) where
\* exactly one index is below F, 0 off the diagonal of the virtual block, and
\* B is the elementwise product (1 - D) * C.
C22_DampingMatrix ==
    (func = "E_BBAC3" /\ epc = "E1") =>
        \A p \in Orb : \A q \in Orb :
            /\ QEq(D[p][q], Doc_D(p, q))
            /\ QEq(B[p][q], QMul(QSub(Q1, D[p][q]), C[p][q]))

\* B is built with all four regions present and fractional occupations
C22_Witness ==
    /\ func = "E_BBAC3"
    /\ epc = "E1"
    /\ norb >= 2 /\ F = 1
    /\ QSign(D[0][1]) # 0 /\ QSign(D[0][0]) # 0 /\ QSign(D[1][1]) # 0
    /\ QSign(B[0][1]) # 0

\* C23 as stated: core-core entries off the diagonal are -2 s + 2 n_p n_q,
\* virtual-virtual entries off the diagonal and cross-block entries are
\* 2 s + 2 n_p n_q or the negative of it, diagonal entries are -2 s + 2 n_p n_q.
C23_RegionTableAsStated ==
    (func = "E_BBAC3" /\ epc = "D_cc") =>
        \A p \in Orb : \A q \in Orb :
            IF p = q THEN QEq(C[p][q], Doc_CRaw(-2, p, q))
            ELSE IF p < F /\ q < F THEN QEq(C[p][q], Doc_CRaw(-2, p, q))
            ELSE \/ QEq(C[p][q], Doc_CRaw(2, p, q))
                 \/ QEq(C[p][q], QNeg(Doc_CRaw(2, p, q)))

\* C23: core-core entries off the diagonal, cross-block entries and diagonal
\* entries of C are -2 s + 2 n_p n_q; virtual-virtual entries off the diagonal
\* are 2 s + 2 n_p n_q.
C23_RegionTable ==
    (func = "E_BBAC3" /\ epc = "D_cc") =>
        \A p \in Orb : \A q \in Orb :
            IF p # q /\ p >= F /\ q >= F THEN QEq(C[p][q], Doc_CRaw(2, p, q))
            ELSE QEq(C[p][q], Doc_CRaw(-2, p, q))

\* C is complete with a cross-block entry of non-zero occupation product
C23_Witness ==
    /\ func = "E_BBAC3"
    /\ epc = "D_cc"
    /\ norb >= 2 /\ F = 1
    /\ QSign(n[0]) # 0 /\ QSign(n[1]) # 0
    /\ QSign(C[0][1]) # 0

C24_DiagonalValues ==
    (func = "E_BBAC3" /\ epc = "B") =>
        \A p \in Orb :
            /\ QEq(C[p][p], Doc_CRaw(-2, p, p))
            /\ QEq(D[p][p], Doc_Damping(Doc_a_d, QSub(QMul(Q2, n[p]), Q1)))

C24_DiagonalKept ==
    /\ (func = "E_BBAC3" /\ epc \in {"D_cc", "D_diag", "D_cross", "B", "E1", "E2", "return"}) =>
           \A p \in Orb : C'[p][p] = C[p][p]
    /\ (func = "E_BBAC3" /\ epc \in {"D_cross", "B", "E1", "E2", "return"}) =>
           \A p \in Orb : D'[p][p] = D[p][p]

\* C24: once all assignments are done, C[p,p] = -2 sqrt(|n_p^2|) + 2 n_p^2 and
\* D[p,p] = D_d(2 n_p - 1) for every p, core or virtual, and no assignment
\* after the diagonal one changes a diagonal entry.
C24_DiagonalPrecedence == [](C24_DiagonalValues) /\ [][C24_DiagonalKept]_vars

\* C and D are complete with a core and a virtual orbital, both of them with
\* a diagonal entry that a block loop wrote first
C24_Witness ==
    /\ func = "E_BBAC3"
    /\ epc = "B"
    /\ norb >= 2 /\ F = 1
    /\ ~QEq(D[0][0], Q1)
    /\ ~QEq(C[1][1], Doc_CRaw(2, 1, 1))

\* C25: for every n, negative entries included, and every F, each argument of
\* sqrt in the C loops is non-negative, so no entry of C is nan.
C25_SqrtOfAbs ==
    (func = "E_BBAC3" /\ epc = "D_cc") =>
        \A p \in Orb : \A q \in Orb :
            /\ QSign(SqrtArg(p, q)) >= 0
            /\ ~IsNaN(C[p][q])

\* C is complete for a vector with a negative product of occupations
C25_Witness ==
    /\ func = "E_BBAC3"
    /\ epc = "D_cc"
    /\ \E p \in Orb : \E q \in Orb : QSign(QMul(n[p], n[q])) < 0

\* the summand of the two-electron sum for the pair (p, q) with B read at [p, q]
C26_Summand_Untransposed(p, q) ==
    LET nn == QMul(n[p], n[q])
    IN  QAdd(QMul(QMul(Q2, nn), J_NO[p][q]),
             QMul(QFrac(1, 2), QMul(QSub(B[p][q], QMul(Q2, nn)), K_NO[p][q])))

\* C26: for every n and F the matrices C, D and B of E_BBAC3 are symmetric,
\* and every summand of the two-electron sum, hence the returned energy, is
\* the one obtained with B[p,q] in place of B[q,p].
C26_SymmetricMatrices ==
    (func = "E_BBAC3" /\ epc = "done") =>
        \A p \in Orb : \A q \in Orb :
            /\ QEq(C[p][q], C[q][p])
            /\ QEq(D[p][q], D[q][p])
            /\ QEq(B[p][q], B[q][p])
            /\ QEq(E2_Term_BBAC3(p, q, J_NO, K_NO), C26_Summand_Untransposed(p, q))

\* an energy with a cross-block exchange term, different occupations in the blocks
C26_Witness ==
    /\ func = "E_BBAC3"
    /\ epc = "done"
    /\ norb >= 2 /\ F = 1
    /\ ~QEq(n[0], n[1])
    /\ QSign(B[0][1]) # 0
    /\ QSign(K_NO[0][1]) # 0

(***************************************************************************)
(* Order of gradient, update, energy and convergence test in vqe.          *)
(***************************************************************************)
\* p - learning_rate * g, in the units of the parameters
DescentStep(p, g) == [i \in PIdx |-> p[i] - (LRNum * Scale * g[i]) \div LRDen]

C27_OrderState ==
    LET L == Len(params_history)
    IN  /\ pc = "update" =>
               gradient = JaxGrad(E_fn, params) /\ params = params_history[L]
        /\ pc = "check" =>
               /\ gradient = JaxGrad(E_fn, params_history[L - 1])
               /\ params_history[L] = DescentStep(params_history[L - 1], gradient)
               /\ E_history[L] = CallE(E_fn, params_history[L])
        /\ stop = "converged" =>
               /\ gradient = JaxGrad(E_fn, params_history[L - 1])
               /\ MaxAbs(gradient) <= conv_tol
               /\ params_history[L] = DescentStep(params_history[L - 1], gradient)

\* every evaluation of the gradient is at the entry of params_history that is
\* last at that moment, entry it + 1 of it + 1 entries; there is none once the
\* loop is left
C27_OrderStep ==
    /\ gradient' # gradient => pc = "grad"
    /\ pc = "grad" =>
           /\ Len(params_history) = it + 1
           /\ params = params_history[it + 1]
           /\ gradient' = JaxGrad(E_fn, params_history[it + 1])
    /\ pc \in {"return", "done"} => pc' # "grad"

\* C27: in every iteration the gradient is evaluated at the parameters before
\* the update and the energy at the parameters after it; when vqe stops on the
\* gradient test, the gradient that met the tolerance is the one of the
\* second-to-last entry of params_history, and the last entry is one more
\* descent step, at which no gradient is evaluated.
C27_PreUpdateGradient == [](C27_OrderState) /\ [][C27_OrderStep]_vars

\* vqe stopped on the gradient test with a gradient that is not zero, so the
\* returned final parameters are one step past the ones whose gradient met the
\* tolerance
C27_Witness ==
    /\ pc = "done"
    /\ stop = "converged"
    /\ gradient # ZeroVec
    /\ gradient = JaxGrad(E_fn, params_history[Len(params_history) - 1])
    /\ params_history[Len(params_history)] # params_history[Len(params_history) - 1]

\* C28: with max_iterations >= 1 vqe makes at least one update before it stops,
\* also when the gradient at the initial parameters meets the tolerance, and
\* returns histories of two or more entries; with max_iterations = 0 it
\* evaluates no gradient and returns the initial parameters and their energy.
C28_AtLeastOneUpdate ==
    /\ (max_iterations = 0) =>
           /\ pc \in {"entry", "for", "return", "done"}
           /\ gradient = ZeroVec
           /\ pc = "done" => ret = <<(<<CallE(E_fn, arg_params)>>), (<<arg_params>>)>>
    /\ (max_iterations >= 1 /\ pc \in {"return", "done"}) =>
           /\ Len(E_history) >= 2 /\ Len(params_history) >= 2
           /\ params_history[1] = arg_params
           /\ params_history[2] = DescentStep(arg_params, JaxGrad(E_fn, arg_params))
    /\ (max_iterations >= 1 /\ pc = "done") => (Len(ret[1]) >= 2 /\ Len(ret[2]) >= 2)

\* a run whose initial gradient already meets the tolerance and which has
\* nevertheless moved the parameters
C28_Witness ==
    /\ pc = "done"
    /\ max_iterations >= 1
    /\ MeetsTol(arg_params)
    /\ Len(ret[2]) = 2
    /\ ret[2][2] # arg_params

(***************************************************************************)
(* The order in which get_no_on consumes rdm1.                             *)
(***************************************************************************)
\* position of the pair (p, q), p <= q, among the upper-triangular pairs in
\* row-major order, counted from 0
TriIndex(nb, p, q) == p * nb - (p * (p - 1)) \div 2 + (q - p)

\* the indices of rdm1 read by the passes of the loops, in the order of the passes
ReadOrder == [t \in 1..Len(TriPairs(norb)) |-> IndexAt(t)]

\* C21: get_no_on reads the indices 0 .. norb*(norb+1)/2 - 1 of rdm1, each in
\* one pass and in increasing order, and writes entry i to rdm1_aa[p, q] and
\* rdm1_aa[q, p] for the i-th pair (p, q), p <= q, in row-major order of the
\* upper triangle; the matrix is symmetric and every entry of it is assigned.
C21_TriangleUnpacked ==
    (epc \in {"eigh", "rev_n", "rev_vecs", "no_return", "no_done"}
        /\ Len(rdm1) >= (norb * (norb + 1)) \div 2) =>
        /\ ReadOrder = [t \in 1..((norb * (norb + 1)) \div 2) |-> t - 1]
        /\ \A p \in Orb : \A q \in Orb : p <= q =>
               /\ TriPairs(norb)[TriIndex(norb, p, q) + 1] = <<p, q>>
               /\ rdm1_aa[p][q] = rdm1[TriIndex(norb, p, q) + 1]
               /\ rdm1_aa[q][p] = rdm1[TriIndex(norb, p, q) + 1]
        /\ \A r \in Orb : \A c \in Orb :
               /\ rdm1_aa[r][c] = rdm1_aa[c][r]
               /\ \E t \in 1..Len(TriPairs(norb)) : <<r, c>> \in WritesOf(TriPairs(norb)[t])

\* a matrix unpacked from a triangle of full length whose off-diagonal entry
\* is neither zero nor equal to a diagonal entry
C21_Witness ==
    /\ epc = "eigh"
    /\ norb >= 2
    /\ Len(rdm1) = (norb * (norb + 1)) \div 2
    /\ QSign(rdm1_aa[1][0]) # 0
    /\ ~QEq(rdm1_aa[1][0], rdm1_aa[0][0])
    /\ ~QEq(rdm1_aa[1][0], rdm1_aa[1][1])
    /\ rdm1_aa[1][0] = rdm1[2]

(***************************************************************************)
(* The measurement of the 1-RDM and whole calls of E_BBAC3 / E_HF.         *)
(* rdm1_ops is filled once, when the notebook cell runs; every call of the *)
(* energy function then runs rdm1_circuit (unless rdm1 is given),          *)
(* get_no_on, the three einsum lines and the energy sums.                  *)
(***************************************************************************)
\* the values of params the energy function is called with: the angle 0 and
\* the angle whose half has cosine 3/5, numbered 0 and 1
ParamValues == {0, 1}

\* 0.5 * (FermiC(2*p) * FermiA(2*q) + FermiC(2*q) * FermiA(2*p)), kept as the
\* pair of spin orbitals it couples
Cpaq(p, q) == <<2 * p, 2 * q>>

\* mutant: for q in range(p + 1, norb)
InnerStart_Strict(p) == p + 1

\* for q in range(p, norb): the first value of q
InnerStart(p) == p

\* the first pass of the loops with the outer variable at p or beyond;
\* <<nb, nb>> when there is none
RECURSIVE FirstPairFrom(_, _)
FirstPairFrom(nb, p) ==
    IF p >= nb THEN <<nb, nb>>
    ELSE IF InnerStart(p) < nb THEN <<p, InnerStart(p)>>
    ELSE FirstPairFrom(nb, p + 1)

\* the pass after the one for pq
NextPair(nb, pq) ==
    IF pq[2] + 1 < nb THEN <<pq[1], pq[2] + 1>> ELSE FirstPairFrom(nb, pq[1] + 1)

\* qml.expval(op) in the state with alpha 1-RDM G: the expectation value of
\* 0.5 * (a+_2p a_2q + a+_2q a_2p) is (G[p, q] + G[q, p]) / 2
Expval(op, G) ==
    QMul(QFrac(1, 2), QAdd(G[op[1] \div 2][op[2] \div 2], G[op[2] \div 2][op[1] \div 2]))

\* rdm1_circuit(params): [qml.expval(op) for op in rdm1_ops] after ansatz(params)
Rdm1Circuit(th) == [i \in 1..Len(rdm1_ops) |-> Expval(rdm1_ops[i], gamma[th])]

\* qml.DoubleExcitation(params, ...) on the Hartree-Fock state gives
\* cos(params/2) |1100> - sin(params/2) |0011>; cos^2(params/2) for the two
\* values of params: 1 and 9/25
CosSq(th) == IF th = 0 THEN Q1 ELSE QFrac(9, 25)

\* the alpha 1-RDM of that state: orbital 0 holds cos^2, orbital 1 holds sin^2
AnsatzRdm(nb) ==
    [th \in ParamValues |-> [r \in OrbOf(nb) |-> [c \in OrbOf(nb) |->
        IF r # c THEN Q0
        ELSE IF r = 0 THEN CosSq(th)
        ELSE IF r = 1 THEN QSub(Q1, CosSq(th))
        ELSE Q0]]]

\* a 1-RDM with off-diagonal entries: occupations Occ(1) and 1 in a rotated basis
RotatedRdm(nb) ==
    LET V == RotationOf(nb)
        w == [k \in OrbOf(nb) |-> IF k = 0 THEN Occ(1) ELSE Q1]
    IN  [r \in OrbOf(nb) |-> [c \in OrbOf(nb) |->
            QSumSeq([t \in 1..nb |-> QMul(QMul(V[r][t - 1], w[t - 1]), V[c][t - 1])])]]

\* the vector handed to the energy function as rdm1: the triangle of a matrix
\* with off-diagonal entries and, from three orbitals on, a repeated eigenvalue
ExplicitRdm1(nb) == {TriangleOf(nb, RotatedRdm(nb))}

\* the default rdm1=None; every rdm1 handed over has entries
None == <<>>

NoCall == [no |-> 0, params |-> 0, rdm1 |-> None, measured |-> FALSE, invoked |-> 0, log |-> <<>>]

\* bound: the calls of the energy function in one behaviour, numbered
CallNumbers == {1, 2}

\* the notebook after the cell that defines the integrals, before rdm1_ops is built
InitCall ==
    /\ VqeIdle
    /\ epc = "ops"
    /\ func \in {"E_BBAC3", "E_HF"}
    /\ norb \in 1..MaxNorb
    /\ F = 1
    /\ E_nuc = QFrac(7, 10)
    /\ h_MO = h_MO_Input(norb)
    /\ I_MO = DenseI(norb)
    /\ n = Unset /\ h_NO = Unset /\ J_NO = Unset /\ K_NO = Unset
    /\ C = Unset /\ D = Unset /\ B = Unset /\ E1 = Unset /\ E2 = Unset /\ E_ret = Unset
    /\ warnings = <<>>
    /\ kind = Unset /\ rdm1 = <<>> /\ rdm1_aa = Unset /\ eig = Unset /\ vecs = Unset
    /\ no_ret = <<>> /\ raised = "none"
    /\ rdm1_ops = <<>>
    /\ op_pq = FirstPairFrom(norb, 0)
    /\ gamma = AnsatzRdm(norb)
    /\ call = NoCall
    /\ eigh_memo = {}

\* one pass of the loops: rdm1_ops.append(cpaq)
AppendOp ==
    /\ epc = "ops"
    /\ op_pq[1] < norb
    /\ rdm1_ops' = Append(rdm1_ops, Cpaq(op_pq[1], op_pq[2]))
    /\ op_pq' = NextPair(norb, op_pq)
    /\ UNCHANGED <<gamma, call, eigh_memo>>
    /\ UNCHANGED <<vqeVars, nofVars, noVars, run2>>

\* the loops are exhausted; the cells that define rdm1_circuit, get_no_on and
\* the energy function run
OpsBuilt ==
    /\ epc = "ops"
    /\ op_pq[1] >= norb
    /\ epc' = "call"
    /\ UNCHANGED <<warnings, func, norb, F, E_nuc, n, h_NO, J_NO, K_NO, C, D, B, E1, E2, E_ret>>
    /\ UNCHANGED <<vqeVars, noVars, run2, callVars>>

\* E_BBAC3(params, rdm1) / E_HF(params, rdm1) is called: a new frame, whose
\* locals are unbound
CallEnergy ==
    /\ epc = "call"
    /\ call.no + 1 \in CallNumbers
    /\ \E th \in ParamValues : \E r \in {None} \cup ExplicitRdm1(norb) :
           call' = [call EXCEPT !.no = @ + 1, !.params = th, !.rdm1 = r, !.measured = FALSE]
    /\ epc' = "if_none"
    /\ n' = Unset /\ h_NO' = Unset /\ J_NO' = Unset /\ K_NO' = Unset
    /\ C' = Unset /\ D' = Unset /\ B' = Unset /\ E1' = Unset /\ E2' = Unset /\ E_ret' = Unset
    /\ kind' = Unset /\ rdm1' = <<>> /\ rdm1_aa' = Unset /\ eig' = Unset /\ vecs' = Unset
    /\ no_ret' = <<>>
    /\ UNCHANGED <<warnings, func, norb, F, E_nuc, raised, h_MO, I_MO>>
    /\ UNCHANGED <<vqeVars, run2, rdm1_ops, op_pq, gamma, eigh_memo>>

\* mutant: the circuit is run whether or not rdm1 is given
IfRdm1None_AlwaysMeasure ==
    /\ epc = "if_none"
    /\ rdm1' = Rdm1Circuit(call.params)
    /\ call' = [call EXCEPT !.measured = TRUE, !.invoked = @ + 1]
    /\ kind' = "array"
    /\ epc' = "fill"
    /\ UNCHANGED <<rdm1_aa, eig, vecs, no_ret, raised, h_MO, I_MO>>
    /\ UNCHANGED <<warnings, func, norb, F, E_nuc, n, h_NO, J_NO, K_NO, C, D, B, E1, E2, E_ret>>
    /\ UNCHANGED <<vqeVars, run2, rdm1_ops, op_pq, gamma, eigh_memo>>

\* if rdm1 is None: rdm1 = rdm1_circuit(params)
IfRdm1None ==
    /\ epc = "if_none"
    /\ IF call.rdm1 = None
         THEN /\ rdm1' = Rdm1Circuit(call.params)
              /\ call' = [call EXCEPT !.measured = TRUE, !.invoked = @ + 1]
         ELSE /\ rdm1' = call.rdm1
              /\ call' = call
    /\ kind' = "array"
    /\ epc' = "fill"
    /\ UNCHANGED <<rdm1_aa, eig, vecs, no_ret, raised, h_MO, I_MO>>
    /\ UNCHANGED <<warnings, func, norb, F, E_nuc, n, h_NO, J_NO, K_NO, C, D, B, E1, E2, E_ret>>
    /\ UNCHANGED <<vqeVars, run2, rdm1_ops, op_pq, gamma, eigh_memo>>

\* n, vecs = get_no_on(rdm1): the returned pair is bound in the caller
AssignNO ==
    /\ call.no > 0
    /\ epc = "no_done"
    /\ n' = no_ret[1]
    /\ vecs' = no_ret[2]
    /\ epc' = "h_NO"
    /\ UNCHANGED <<kind, rdm1, rdm1_aa, eig, no_ret, raised, h_MO, I_MO>>
    /\ UNCHANGED <<warnings, func, norb, F, E_nuc, h_NO, J_NO, K_NO, C, D, B, E1, E2, E_ret>>
    /\ UNCHANGED <<vqeVars, run2, callVars>>

\* after the einsum lines: E_BBAC3 defines a_d, a_o, P_BBAC3 and D_BBAC3 and
\* goes on to C, E_HF goes on to E1
AfterTransform ==
    /\ call.no > 0
    /\ epc = "transformed"
    /\ epc' = IF func = "E_BBAC3" THEN "C_vv" ELSE "E1"
    /\ UNCHANGED <<warnings, func, norb, F, E_nuc, n, h_NO, J_NO, K_NO, C, D, B, E1, E2, E_ret>>
    /\ UNCHANGED <<vqeVars, noVars, run2, callVars>>

\* the call is over: its value is with the caller and the frame is gone
CallReturns ==
    /\ call.no > 0
    /\ epc = "done"
    /\ call' = [call EXCEPT !.log = Append(@, [params |-> call.params, rdm1 |-> call.rdm1,
                                                measured |-> call.measured, E |-> E_ret])]
    /\ epc' = "call"
    /\ UNCHANGED <<warnings, func, norb, F, E_nuc, n, h_NO, J_NO, K_NO, C, D, B, E1, E2, E_ret>>
    /\ UNCHANGED <<vqeVars, noVars, run2, rdm1_ops, op_pq, gamma, eigh_memo>>

NextCall ==
    \/ AppendOp
    \/ OpsBuilt
    \/ CallEnergy
    \/ IfRdm1None
    \/ Reconstruct
    \/ Eigh
    \/ ReverseN
    \/ ReverseVecs
    \/ ReturnNO
    \/ AssignNO
    \/ TransformH
    \/ TransformJ
    \/ TransformK
    \/ AfterTransform
    \/ NextEnergy
    \/ CallReturns

SpecCall == InitCall /\ [][NextCall]_vars

(***************************************************************************)
(* Agreement of the measured vector with the unpacking in get_no_on, and   *)
(* calls of the energy function with rdm1 given.                           *)
(***************************************************************************)
\* the pair whose entries pass t of the loops in get_no_on sets, from entry
\* IndexAt(t) of the vector
PairOfPass(t) == TriPairs(norb)[t]

\* C30: for every norb the i-th operator appended to rdm1_ops, hence the i-th
\* value rdm1_circuit returns, belongs to the pair (p, q), p <= q, to which
\* get_no_on writes entry i of the vector, and rdm1_ops holds
\* norb*(norb+1)/2 operators, as many as get_no_on reads entries.
C30_OrderingsAgree ==
    /\ epc # "ops" =>
           /\ Len(rdm1_ops) = (norb * (norb + 1)) \div 2
           /\ Len(rdm1_ops) = Len(ReadOrder)
           /\ \A t \in 1..Len(rdm1_ops) :
                  rdm1_ops[t] = Cpaq(PairOfPass(t)[1], PairOfPass(t)[2])
    /\ (epc = "eigh" /\ call.measured) =>
           /\ Len(rdm1) = Len(rdm1_ops)
           /\ \A t \in 1..Len(rdm1_ops) :
                  /\ QEq(rdm1[IndexAt(t) + 1], Expval(rdm1_ops[t], gamma[call.params]))
                  /\ QEq(rdm1_aa[PairOfPass(t)[1]][PairOfPass(t)[2]],
                         gamma[call.params][PairOfPass(t)[1]][PairOfPass(t)[2]])
           /\ \A p \in Orb : \A q \in Orb : QEq(rdm1_aa[p][q], gamma[call.params][p][q])

\* a measured 1-RDM with two different occupations, unpacked by get_no_on:
\* the last of the three measured values is on the diagonal, the second is not
C30_Witness ==
    /\ epc = "eigh"
    /\ call.measured
    /\ norb = 2
    /\ Len(rdm1_ops) = 3
    /\ rdm1_ops[2] = Cpaq(0, 1)
    /\ QSign(rdm1[3]) # 0
    /\ ~QEq(rdm1[1], rdm1[3])
    /\ QEq(rdm1_aa[1][1], rdm1[3])
    /\ QEq(rdm1_aa[1][0], rdm1[2])

\* the calls made so far for which rdm1_circuit was run
MeasuredCalls == {k \in 1..Len(call.log) : call.log[k].measured}

C29_Calls ==
    epc # "ops" =>
        /\ \A k \in 1..Len(call.log) : call.log[k].rdm1 # None => ~call.log[k].measured
        /\ call.rdm1 # None => ~call.measured
        /\ call.invoked = Cardinality(MeasuredCalls)
                            + (IF Len(call.log) < call.no /\ call.measured THEN 1 ELSE 0)
        /\ \A j \in 1..Len(call.log) : \A k \in 1..Len(call.log) :
               (call.log[j].rdm1 # None /\ call.log[j].rdm1 = call.log[k].rdm1) =>
                   QEq(call.log[j].E, call.log[k].E)

\* rdm1_ops after all passes of the loops from the pass for pq on
RECURSIVE OpsFrom(_, _)
OpsFrom(nb, pq) ==
    IF pq[1] >= nb THEN <<>>
    ELSE <<Cpaq(pq[1], pq[2])>> \o OpsFrom(nb, NextPair(nb, pq))

\* the globals have the values the notebook cells gave them
C29_GlobalsRead ==
    /\ E_nuc = QFrac(7, 10)
    /\ F = 1
    /\ h_MO = h_MO_Input(norb)
    /\ I_MO = DenseI(norb)
    /\ gamma = AnsatzRdm(norb)
    /\ epc # "ops" => rdm1_ops = OpsFrom(norb, FirstPairFrom(norb, 0))

\* C29: a call of E_BBAC3 or E_HF with rdm1 given never runs rdm1_circuit, and
\* its energy does not depend on params: calls with the same rdm1 return the
\* same energy whatever params and whatever calls came before; the calls only
\* read the globals.
C29_ExplicitRdm1 == C29_Calls /\ C29_GlobalsRead

\* two finished calls with the same rdm1 given and different params, for which
\* the circuit prepares different states
C29_Witness ==
    /\ Len(call.log) = 2
    /\ call.log[1].rdm1 # None
    /\ call.log[1].rdm1 = call.log[2].rdm1
    /\ call.log[1].params # call.log[2].params
    /\ gamma[call.log[1].params] # gamma[call.log[2].params]
    /\ call.invoked = 0
    /\ QEq(call.log[1].E, call.log[2].E)

=============================================================================
